---- MODULE Spec2Model ----
(***************************************************************************)
(* Pathfinding and coordinate core of the Aqueduct automation client.      *)
(*                                                                         *)
(*   intelligent_pathfinding.py : Position, ZoneAnalyzer, TerrainAnalyzer, *)
(*                                IntelligentPathfinder                    *)
(*   pathfinding.py             : Position, TerrainGrid, PathfindingEngine *)
(*   coordinate_fix.py          : CoordinateFix (src and Deploy builds)    *)
(*   utils.py                   : calculate_distance, wait_for_movement    *)
(*   resource_manager.py        : ResourceStatus, ResourceManager          *)
(*   main.py                    : AqueductAutomation.farm_aqueduct         *)
(*                                                                         *)
(* Python strings are sequences of one-character strings.  An Optional     *)
(* value is a sequence: <<>> is None, <<v>> is the value v.  A dict is a   *)
(* function whose DOMAIN is its key set.  Python lists are 0-indexed, the  *)
(* sequences here 1-indexed: grid[y][x] is grid[y + 1][x + 1].             *)
(***************************************************************************)
EXTENDS Integers, Sequences, FiniteSets, TLC

VARIABLES
    terrain_string,   \* the terrain snapshot text
    terrain_rows,     \* the integer rows the snapshot was serialised from
    tg,               \* pathfinding.TerrainGrid instance
    ta,               \* intelligent_pathfinding.TerrainAnalyzer instance
    entities,         \* the entity snapshot (list of dicts)
    player_pos,       \* Position handed to find_optimal_exit
    exit_candidates,  \* find_zone_exits: the local list exits before deduplication
    exits,            \* the list find_zone_exits returned
    optimal,          \* Optional[Position] find_optimal_exit returned
    start_pos,        \* create_intelligent_path: the dict {'X': .., 'Y': ..}
    open_set,         \* _find_path_astar: the heap list of PathNode references
    closed_set,       \* _find_path_astar: the set of expanded positions
    nodes_dict,       \* _find_path_astar: Position -> PathNode
    astar_path,       \* Optional[List[Position]] _find_path_astar returned
    path,             \* the list create_intelligent_path returned
    method,           \* which construction produced path
    pc,               \* position of the running operation
    tg_cell,          \* Optional[Position]: the (x, y) last given to TerrainGrid.is_walkable
    tg_walkable,      \* Optional[bool]: what that call returned
    ta_cell,          \* Optional[Position]: the (x, y) last given to TerrainAnalyzer.is_walkable
    ta_walkable,      \* Optional[bool]: what that call returned
    pos_p,            \* a Position
    pos_q,            \* another Position
    measurements,     \* the distance calls made on pos_p and pos_q, with their results
    game_window,      \* CoordinateFix.game_window: Optional[dict]
    grid_to_screen_scale,  \* CoordinateFix.grid_to_screen_scale, in thousandths
    invert_x,         \* CoordinateFix.invert_x (Deploy build)
    invert_y,         \* CoordinateFix.invert_y (Deploy build)
    swap_xy,          \* CoordinateFix.swap_xy (Deploy build)
    conversions,      \* the convert_grid_to_screen calls made under the current calibration
    valid_call,       \* Optional: the last is_valid_screen_position call and its result
    click_call,       \* Optional: the last get_entity_click_position call and its result
    position_call,    \* Optional: the last get_movement_position or
                      \* get_safe_click_near_player call and its result
    distance_call,    \* Optional: the last calculate_distance call and its result
    engine_call,      \* Optional: the last PathfindingEngine call and its result
    rm,               \* resource_manager.ResourceManager instance
    rm_history,       \* whether life data, and a reading below the retreat
                      \* thresholds, has been received
    retreat_call,     \* Optional: the result of the last should_retreat() call
    farm,             \* main.AqueductAutomation.farm_aqueduct: path, loop index, counters
    farm_log,         \* the calls farm_aqueduct has made, in order
    test_call         \* Optional: the last test_coordinate_conversion call and its result

vars == <<terrain_string, terrain_rows, tg, ta,
          entities, player_pos, exit_candidates, exits, optimal,
          start_pos, open_set, closed_set, nodes_dict, astar_path, path, method, pc,
          tg_cell, tg_walkable, ta_cell, ta_walkable,
          pos_p, pos_q, measurements,
          game_window, grid_to_screen_scale, invert_x, invert_y, swap_xy,
          conversions, valid_call, click_call, position_call,
          distance_call, engine_call, rm, rm_history, retreat_call, farm, farm_log, test_call>>

searchVars == <<open_set, closed_set, nodes_dict, astar_path>>

pathVars == <<start_pos, open_set, closed_set, nodes_dict, astar_path, path, method>>

terrainVars == <<terrain_string, terrain_rows, tg, ta>>

zoneVars == <<entities, player_pos, exit_candidates, exits, optimal>>

walkVars == <<tg_cell, tg_walkable, ta_cell, ta_walkable>>

distVars == <<pos_p, pos_q, measurements>>

calibrationVars == <<game_window, grid_to_screen_scale, invert_x, invert_y, swap_xy>>

callVars == <<conversions, valid_call, click_call, position_call>>

coordVars == <<calibrationVars, callVars>>

resourceVars == <<rm, rm_history, retreat_call>>

farmVars == <<farm, farm_log>>

automationVars == <<distance_call, engine_call, resourceVars, farmVars, test_call>>

queryVars == <<walkVars, distVars, coordVars, automationVars>>

(***************************************************************************)
(* Bounds of the model.                                                    *)
(***************************************************************************)
MaxRows == 2
MaxCols == 2
MaxZoneEntities == 3
MaxEntities == 2
MaxMeasurements == 2
MaxConversions == 2

(***************************************************************************)
(* Text primitives of the Python runtime used by the parsers.              *)
(***************************************************************************)
Whitespace == {" ", "\t", "\n", "\r"}

Digits == <<"0", "1", "2", "3", "4", "5", "6", "7", "8", "9">>

DigitSet == {Digits[i] : i \in 1..10}

DigitVal(c) == (CHOOSE i \in 1..10 : Digits[i] = c) - 1

RECURSIVE LStrip(_)
LStrip(s) == IF s # <<>> /\ Head(s) \in Whitespace THEN LStrip(Tail(s)) ELSE s

RECURSIVE RStrip(_)
RStrip(s) ==
    IF s # <<>> /\ s[Len(s)] \in Whitespace
    THEN RStrip(SubSeq(s, 1, Len(s) - 1))
    ELSE s

\* str.strip()
Strip(s) == RStrip(LStrip(s))

\* str.split(sep) for a one-character separator: always at least one piece
RECURSIVE SplitFrom(_, _, _)
SplitFrom(rest, cur, sep) ==
    LET seps == {i \in 1..Len(rest) : rest[i] = sep}
    IN  IF seps = {} THEN <<cur \o rest>>
        ELSE LET first == CHOOSE i \in seps : \A j \in seps : i <= j
             IN  <<cur \o SubSeq(rest, 1, first - 1)>>
                     \o SplitFrom(SubSeq(rest, first + 1, Len(rest)), <<>>, sep)

Split(s, sep) == SplitFrom(s, <<>>, sep)

\* str.split() without argument: runs of whitespace separate, no empty piece
RECURSIVE SplitWsFrom(_, _)
SplitWsFrom(rest, cur) ==
    LET blanks == {i \in 1..Len(rest) : rest[i] \in Whitespace}
        first == CHOOSE i \in blanks : \A j \in blanks : i <= j
        word == IF blanks = {} THEN cur \o rest ELSE cur \o SubSeq(rest, 1, first - 1)
        piece == IF word = <<>> THEN <<>> ELSE <<word>>
    IN  IF blanks = {} THEN piece
        ELSE piece \o SplitWsFrom(SubSeq(rest, first + 1, Len(rest)), <<>>)

SplitWs(s) == SplitWsFrom(s, <<>>)

\* int(token) succeeds on an optional sign followed by decimal digits
IntBody(tok) ==
    IF tok # <<>> /\ Head(tok) \in {"+", "-"} THEN Tail(tok) ELSE tok

IsIntToken(tok) ==
    /\ IntBody(tok) # <<>>
    /\ \A i \in 1..Len(IntBody(tok)) : IntBody(tok)[i] \in DigitSet

RECURSIVE DigitsValue(_)
DigitsValue(ds) ==
    IF ds = <<>> THEN 0
    ELSE 10 * DigitsValue(SubSeq(ds, 1, Len(ds) - 1)) + DigitVal(ds[Len(ds)])

IntOf(tok) ==
    IF tok # <<>> /\ Head(tok) = "-"
    THEN 0 - DigitsValue(IntBody(tok))
    ELSE DigitsValue(IntBody(tok))

\* [int(x) for x in line.split()] raises ValueError on a non-integer token
LineRaises(line) == \E i \in 1..Len(SplitWs(line)) : ~IsIntToken(SplitWs(line)[i])

LineValues(line) == [i \in 1..Len(SplitWs(line)) |-> IntOf(SplitWs(line)[i])]

(***************************************************************************)
(* pathfinding.TerrainGrid                                                 *)
(***************************************************************************)
TerrainGrid_parse_terrain_string(s) ==
    IF s = <<>> THEN <<>>
    ELSE LET lines == Split(Strip(s), "\n")
         IN  IF \E i \in 1..Len(lines) : LineRaises(lines[i])
             THEN <<>>
             ELSE [i \in 1..Len(lines) |-> LineValues(lines[i])]

\* mutant: width and height exchanged
TerrainGrid_transposed(s) ==
    LET grid == TerrainGrid_parse_terrain_string(s)
    IN  [built  |-> TRUE,
         grid   |-> grid,
         width  |-> Len(grid),
         height |-> IF grid # <<>> THEN Len(grid[1]) ELSE 0]

TerrainGrid(s) ==
    LET grid == TerrainGrid_parse_terrain_string(s)
    IN  [built  |-> TRUE,
         grid   |-> grid,
         width  |-> IF grid # <<>> THEN Len(grid[1]) ELSE 0,
         height |-> Len(grid)]

(***************************************************************************)
(* intelligent_pathfinding.TerrainAnalyzer                                 *)
(***************************************************************************)
NonBlank(line) == Strip(line) # <<>>

TerrainAnalyzer_parse_terrain_string(s) ==
    IF s = <<>> \/ Len(Strip(s)) = 0 THEN <<>>
    ELSE LET lines == SelectSeq(Split(Strip(s), "\n"), NonBlank)
         IN  IF \E i \in 1..Len(lines) : LineRaises(Strip(lines[i]))
             THEN <<>>
             ELSE [i \in 1..Len(lines) |-> LineValues(Strip(lines[i]))]

TerrainAnalyzer(s) ==
    LET grid == TerrainAnalyzer_parse_terrain_string(s)
    IN  [built  |-> TRUE,
         grid   |-> grid,
         width  |-> IF grid # <<>> THEN Len(grid[1]) ELSE 0,
         height |-> Len(grid)]

Unbuilt == [built |-> FALSE, grid |-> <<>>, width |-> 0, height |-> 0]

(***************************************************************************)
(* Terrain snapshots: the text the data source sends for a grid of codes.  *)
(***************************************************************************)
TerrainCodes == {7, 51}

RECURSIVE ToDigits(_)
ToDigits(n) ==
    IF n < 10 THEN <<Digits[n + 1]>>
    ELSE Append(ToDigits(n \div 10), Digits[(n % 10) + 1])

RECURSIVE JoinSeqs(_, _)
JoinSeqs(pieces, sep) ==
    IF pieces = <<>> THEN <<>>
    ELSE IF Len(pieces) = 1 THEN pieces[1]
         ELSE pieces[1] \o sep \o JoinSeqs(Tail(pieces), sep)

\* one row per line, the codes of a row separated by colsep
Serialise(rows, colsep, rowsep, lead, trail) ==
    lead \o JoinSeqs([i \in 1..Len(rows) |->
                        JoinSeqs([j \in 1..Len(rows[i]) |-> ToDigits(rows[i][j])],
                                 colsep)],
                     rowsep) \o trail

ColSeps == {<<" ">>, <<"\t", " ">>}

RowSeps == {<<"\n">>, <<" ", "\r", "\n">>}

Margins == {<<<<>>, <<>>>>, <<<<" ", "\n">>, <<"\n", " ">>>>}

RectRows == UNION {[1..r -> [1..c -> TerrainCodes]] : r \in 1..MaxRows, c \in 1..MaxCols}

\* snapshots that are not R >= 1 rows of C >= 1 integers
OddSnapshots ==
    { <<>>,
      <<" ">>,
      <<"\n">>,
      <<" ", "\n", "\t">>,
      <<"5", "1", " ", "x">>,
      <<"5", "1", "\n", "5", ".", "0">>,
      <<"5", "1", "\n", "\n", "5", "0">>,
      <<"5", "1", "\n", " ", "\n", "5", "0">>,
      <<"5", "1", " ", "5", "1", "\n", "5", "0">>,
      <<"5", "1", "\n", "5", "0", " ", "5", "1">>,
      <<"-", "1", " ", "+", "5", "1">> }

(***************************************************************************)
(* intelligent_pathfinding.Position                                        *)
(***************************************************************************)
Position(x, y) == [x |-> x, y |-> y]

\* (self.x - other.x) ** 2 + (self.y - other.y) ** 2, the radicand of distance_to
Dist2(p, q) == (p.x - q.x) * (p.x - q.x) + (p.y - q.y) * (p.y - q.y)

\* mutant: the squared distance is compared with r
DistanceLess_unsquared(p, q, r) == Dist2(p, q) < r

\* distance_to(p, q) < r for an integer r: sqrt is increasing and sqrt(r * r) = r
DistanceLess(p, q, r) == Dist2(p, q) < r * r

(***************************************************************************)
(* Entities: dicts with the optional keys Path, EntityType, GridPosition.  *)
(***************************************************************************)
EmptyDict == [k \in {} |-> 0]

\* dict.get(key, default)
Get(d, k, dflt) == IF k \in DOMAIN d THEN d[k] ELSE dflt

UpperCase == <<"A", "B", "C", "D", "E", "F", "G", "H", "I", "J", "K", "L", "M", "N", "O", "P", "Q", "R", "S", "T", "U", "V", "W", "X", "Y", "Z">>

LowerCase == <<"a", "b", "c", "d", "e", "f", "g", "h", "i", "j", "k", "l", "m", "n", "o", "p", "q", "r", "s", "t", "u", "v", "w", "x", "y", "z">>

LowerChar(c) ==
    IF \E i \in 1..26 : UpperCase[i] = c
    THEN LowerCase[CHOOSE i \in 1..26 : UpperCase[i] = c]
    ELSE c

\* str.lower()
Lower(s) == [i \in 1..Len(s) |-> LowerChar(s[i])]

\* keyword in path
Contains(s, kw) ==
    \E i \in 1..(Len(s) - Len(kw) + 1) : SubSeq(s, i, i + Len(kw) - 1) = kw

ExitKeywords == <<
    <<"d", "o", "o", "r">>,
    <<"e", "x", "i", "t">>,
    <<"w", "a", "y", "p", "o", "i", "n", "t">>,
    <<"p", "o", "r", "t", "a", "l">>,
    <<"t", "r", "a", "n", "s", "i", "t", "i", "o", "n">>,
    <<"a", "r", "e", "a", "t", "r", "a", "n", "s", "i", "t", "i", "o", "n">>,
    <<"z", "o", "n", "e", "e", "x", "i", "t">>,
    <<"s", "t", "a", "i", "r", "c", "a", "s", "e">>,
    <<"l", "a", "d", "d", "e", "r">> >>

ExtendedKeywords == <<
    <<"w", "a", "y", "p", "o", "i", "n", "t">>,
    <<"t", "e", "l", "e", "p", "o", "r", "t">>,
    <<"p", "o", "r", "t", "a", "l">>,
    <<"t", "r", "a", "n", "s", "i", "t", "i", "o", "n">> >>

AnyKeyword(str, keywords) ==
    \E k \in 1..Len(keywords) : Contains(str, keywords[k])

ExitEntityTypes == {1, 2, 3}

\* Position(grid_pos.get('X', 0), grid_pos.get('Y', 0))
GridPositionOf(entity) ==
    LET grid_pos == Get(entity, "GridPosition", EmptyDict)
    IN  Position(Get(grid_pos, "X", 0), Get(grid_pos, "Y", 0))

\* if grid_pos: a dict is true when it has a key
HasGridPosition(entity) == DOMAIN Get(entity, "GridPosition", EmptyDict) # {}

(***************************************************************************)
(* intelligent_pathfinding.ZoneAnalyzer                                    *)
(***************************************************************************)
\* mutant: the path is matched without .lower()
ExitsOfEntity_cased(entity) ==
    LET entity_path == Get(entity, "Path", <<>>)
        entity_type == Get(entity, "EntityType", 0)
        by_keyword == IF AnyKeyword(entity_path, ExitKeywords) /\ HasGridPosition(entity)
                      THEN <<GridPositionOf(entity)>> ELSE <<>>
        by_type == IF entity_type \in ExitEntityTypes /\ HasGridPosition(entity)
                   THEN <<GridPositionOf(entity)>> ELSE <<>>
    IN  by_keyword \o by_type

\* what one iteration of the entity loop appends to exits
ExitsOfEntity(entity) ==
    LET entity_path == Lower(Get(entity, "Path", <<>>))
        entity_type == Get(entity, "EntityType", 0)
        by_keyword == IF AnyKeyword(entity_path, ExitKeywords) /\ HasGridPosition(entity)
                      THEN <<GridPositionOf(entity)>> ELSE <<>>
        by_type == IF entity_type \in ExitEntityTypes /\ HasGridPosition(entity)
                   THEN <<GridPositionOf(entity)>> ELSE <<>>
    IN  by_keyword \o by_type

RECURSIVE CollectExits(_)
CollectExits(ents) ==
    IF ents = <<>> THEN <<>>
    ELSE ExitsOfEntity(Head(ents)) \o CollectExits(Tail(ents))

\* the loop that builds unique_exits: keep an exit unless a kept one is nearer than 10
\* mutant: exits exactly 10 units apart are merged as well
RECURSIVE UniqueExits_inclusive(_, _)
UniqueExits_inclusive(unique_exits, rest) ==
    IF rest = <<>> THEN unique_exits
    ELSE IF \E i \in 1..Len(unique_exits) : Dist2(unique_exits[i], Head(rest)) <= 100
         THEN UniqueExits_inclusive(unique_exits, Tail(rest))
         ELSE UniqueExits_inclusive(Append(unique_exits, Head(rest)), Tail(rest))

RECURSIVE UniqueExits(_, _)
UniqueExits(unique_exits, rest) ==
    IF rest = <<>> THEN unique_exits
    ELSE IF \E i \in 1..Len(unique_exits) : DistanceLess(unique_exits[i], Head(rest), 10)
         THEN UniqueExits(unique_exits, Tail(rest))
         ELSE UniqueExits(Append(unique_exits, Head(rest)), Tail(rest))

find_zone_exits(ents) == UniqueExits(<<>>, CollectExits(ents))

\* min(exits, key=distance): the first element with the least key; the double
\* sqrt is strictly increasing on the radicands in range, so keys compare as Dist2
\* mutant: a later exit replaces an equally near earlier one
RECURSIVE MinByDistance_last(_, _, _)
MinByDistance_last(best, rest, pos) ==
    IF rest = <<>> THEN best
    ELSE IF Dist2(Head(rest), pos) <= Dist2(best, pos)
         THEN MinByDistance_last(Head(rest), Tail(rest), pos)
         ELSE MinByDistance_last(best, Tail(rest), pos)

RECURSIVE MinByDistance(_, _, _)
MinByDistance(best, rest, pos) ==
    IF rest = <<>> THEN best
    ELSE IF Dist2(Head(rest), pos) < Dist2(best, pos)
         THEN MinByDistance(Head(rest), Tail(rest), pos)
         ELSE MinByDistance(best, Tail(rest), pos)

find_optimal_exit(pos, exit_list) ==
    IF exit_list = <<>> THEN <<>>
    ELSE <<MinByDistance(Head(exit_list), Tail(exit_list), pos)>>

(***************************************************************************)
(* TerrainGrid queries.                                                    *)
(***************************************************************************)
TerrainGrid_is_valid_position(t, x, y) ==
    0 <= x /\ x < t.width /\ 0 <= y /\ y < t.height

\* mutant: the lower bounds are not tested, and a negative index counts from
\* the end of the list as Python's indexing does
TerrainGrid_is_walkable_wrap(t, x, y) ==
    IF ~(x < t.width /\ y < t.height) THEN FALSE
    ELSE LET row == IF y < 0 THEN t.height + y + 1 ELSE y + 1
         IN  IF row < 1 THEN FALSE
             ELSE LET col == IF x < 0 THEN Len(t.grid[row]) + x + 1 ELSE x + 1
                  IN  IF col < 1 \/ col > Len(t.grid[row]) THEN FALSE
                      ELSE t.grid[row][col] = 51

\* mutant: every code from 51 up is walkable
TerrainGrid_is_walkable_atleast(t, x, y) ==
    IF ~TerrainGrid_is_valid_position(t, x, y) THEN FALSE
    ELSE IF x + 1 > Len(t.grid[y + 1]) THEN FALSE
         ELSE t.grid[y + 1][x + 1] >= 51

\* self.grid[y][x] raises IndexError on a row shorter than the first one; the
\* except clause turns that into False
TerrainGrid_is_walkable(t, x, y) ==
    IF ~TerrainGrid_is_valid_position(t, x, y) THEN FALSE
    ELSE IF x + 1 > Len(t.grid[y + 1]) THEN FALSE
         ELSE t.grid[y + 1][x + 1] = 51

(***************************************************************************)
(* TerrainAnalyzer queries.                                                *)
(***************************************************************************)
TerrainAnalyzer_is_valid_position(t, x, y) ==
    0 <= x /\ x < t.width /\ 0 <= y /\ y < t.height

\* self.grid[y][x] raises IndexError on a row shorter than the first one; the
\* except clause turns that into False
TerrainAnalyzer_is_walkable(t, x, y) ==
    IF ~TerrainAnalyzer_is_valid_position(t, x, y) THEN FALSE
    ELSE IF x + 1 > Len(t.grid[y + 1]) THEN FALSE
         ELSE t.grid[y + 1][x + 1] >= 50

Directions ==
    << <<-1, -1>>, <<-1, 0>>, <<-1, 1>>,
       <<0, -1>>,             <<0, 1>>,
       <<1, -1>>,  <<1, 0>>,  <<1, 1>> >>

IsWalkableNeighbor(t, pos, d) ==
    TerrainAnalyzer_is_walkable(t, pos.x + d[1], pos.y + d[2])

RECURSIVE NeighborsFrom(_, _, _)
NeighborsFrom(t, pos, k) ==
    IF k > Len(Directions) THEN <<>>
    ELSE (IF IsWalkableNeighbor(t, pos, Directions[k])
          THEN <<Position(pos.x + Directions[k][1], pos.y + Directions[k][2])>>
          ELSE <<>>) \o NeighborsFrom(t, pos, k + 1)

\* mutant: only a walkable cell has neighbours
TerrainAnalyzer_get_neighbors_fromwalkable(t, pos) ==
    IF TerrainAnalyzer_is_walkable(t, pos.x, pos.y) THEN NeighborsFrom(t, pos, 1) ELSE <<>>

TerrainAnalyzer_get_neighbors(t, pos) == NeighborsFrom(t, pos, 1)

(***************************************************************************)
(* Costs.  distance_to is a double; costs are kept in fixed point, Scale   *)
(* units to one grid unit, rounded down.                                   *)
(***************************************************************************)
Scale == 100

RECURSIVE ISqrtIn(_, _, _)
ISqrtIn(n, lo, hi) ==
    IF lo >= hi THEN lo
    ELSE LET mid == (lo + hi + 1) \div 2
         IN  IF mid * mid <= n THEN ISqrtIn(n, mid, hi) ELSE ISqrtIn(n, lo, mid - 1)

\* floor of the square root
ISqrt(n) == ISqrtIn(n, 0, 46340)

distance_to(p, q) == ISqrt(Dist2(p, q) * Scale * Scale)

\* pathfinding.Position.distance_to: the same radicand under ** 0.5
pathfinding_distance_to(p, q) ==
    ISqrt(((p.x - q.x) * (p.x - q.x) + (p.y - q.y) * (p.y - q.y)) * Scale * Scale)

Abs(n) == IF n < 0 THEN -n ELSE n

\* mutant: the y difference is added with its sign
manhattan_distance_to_signed(p, q) == Abs(p.x - q.x) + (p.y - q.y)

\* Position.manhattan_distance_to, the same in both modules
manhattan_distance_to(p, q) == Abs(p.x - q.x) + Abs(p.y - q.y)

(***************************************************************************)
(* heapq on a list of PathNode references.  A node is referred to by its   *)
(* position: nodes_dict holds the one PathNode object of each position,    *)
(* and PathNode.__lt__ reads the node's current costs.                     *)
(***************************************************************************)
PathNode(position, g_cost, h_cost, parent) ==
    [position |-> position, g_cost |-> g_cost, h_cost |-> h_cost, parent |-> parent]

f_cost(node) == node.g_cost + node.h_cost

\* PathNode.__lt__
NodeLess(nodes, a, b) == f_cost(nodes[a]) < f_cost(nodes[b])

\* heapq._siftdown(heap, startpos, pos), 0-based positions, newitem = heap[pos]
RECURSIVE SiftDown(_, _, _, _, _)
SiftDown(nodes, heap, startpos, pos, newitem) ==
    IF pos > startpos
    THEN LET parentpos == (pos - 1) \div 2
             parent == heap[parentpos + 1]
         IN  IF NodeLess(nodes, newitem, parent)
             THEN SiftDown(nodes, [heap EXCEPT ![pos + 1] = parent],
                           startpos, parentpos, newitem)
             ELSE [heap EXCEPT ![pos + 1] = newitem]
    ELSE [heap EXCEPT ![pos + 1] = newitem]

\* heapq._siftup(heap, pos): bubble the smaller child up to a leaf, then sift down
RECURSIVE SiftUp(_, _, _, _, _)
SiftUp(nodes, heap, startpos, pos, newitem) ==
    LET endpos == Len(heap)
        childpos == 2 * pos + 1
        rightpos == childpos + 1
        smaller == IF rightpos < endpos
                      /\ ~NodeLess(nodes, heap[childpos + 1], heap[rightpos + 1])
                   THEN rightpos ELSE childpos
    IN  IF childpos < endpos
        THEN SiftUp(nodes, [heap EXCEPT ![pos + 1] = heap[smaller + 1]],
                    startpos, smaller, newitem)
        ELSE SiftDown(nodes, [heap EXCEPT ![pos + 1] = newitem], startpos, pos, newitem)

\* heapq.heappush(heap, item)
HeapPush(nodes, heap, item) ==
    SiftDown(nodes, Append(heap, item), 0, Len(heap), item)

\* heapq.heappop(heap): the item returned and the heap left
HeapPop(nodes, heap) ==
    LET lastelt == heap[Len(heap)]
        rest == SubSeq(heap, 1, Len(heap) - 1)
    IN  IF rest # <<>>
        THEN [item |-> heap[1],
              heap |-> SiftUp(nodes, [rest EXCEPT ![1] = lastelt], 0, 0, lastelt)]
        ELSE [item |-> lastelt, heap |-> rest]

(***************************************************************************)
(* intelligent_pathfinding.IntelligentPathfinder                           *)
(***************************************************************************)
\* mutant: every neighbour is put on the open set again, closed or not
RECURSIVE ExpandNeighbors_reopen(_, _, _, _, _, _)
ExpandNeighbors_reopen(neighbors, current_pos, goal, closed, nodes, heap) ==
    IF neighbors = <<>> THEN [nodes |-> nodes, heap |-> heap]
    ELSE LET neighbor_pos == Head(neighbors)
             g_cost == nodes[current_pos].g_cost + distance_to(current_pos, neighbor_pos)
             h_cost == distance_to(neighbor_pos, goal)
             nodes1 == IF neighbor_pos \in DOMAIN nodes THEN nodes
                       ELSE nodes @@ (neighbor_pos :>
                                PathNode(neighbor_pos, g_cost, h_cost, <<current_pos>>))
         IN  ExpandNeighbors_reopen(Tail(neighbors), current_pos, goal, closed,
                                    nodes1, HeapPush(nodes1, heap, neighbor_pos))

\* the body of "for neighbor_pos in neighbors", threading nodes_dict and open_set
RECURSIVE ExpandNeighbors(_, _, _, _, _, _)
ExpandNeighbors(neighbors, current_pos, goal, closed, nodes, heap) ==
    IF neighbors = <<>> THEN [nodes |-> nodes, heap |-> heap]
    ELSE LET neighbor_pos == Head(neighbors)
             g_cost == nodes[current_pos].g_cost + distance_to(current_pos, neighbor_pos)
             h_cost == distance_to(neighbor_pos, goal)
         IN  IF neighbor_pos \in closed
             THEN ExpandNeighbors(Tail(neighbors), current_pos, goal, closed, nodes, heap)
             ELSE IF neighbor_pos \notin DOMAIN nodes
                  THEN LET nodes1 == nodes @@ (neighbor_pos :>
                                        PathNode(neighbor_pos, g_cost, h_cost, <<current_pos>>))
                       IN  ExpandNeighbors(Tail(neighbors), current_pos, goal, closed,
                                           nodes1, HeapPush(nodes1, heap, neighbor_pos))
                  ELSE IF g_cost < nodes[neighbor_pos].g_cost
                       THEN LET nodes1 == [nodes EXCEPT
                                             ![neighbor_pos].g_cost = g_cost,
                                             ![neighbor_pos].parent = <<current_pos>>]
                            IN  ExpandNeighbors(Tail(neighbors), current_pos, goal, closed,
                                                nodes1, HeapPush(nodes1, heap, neighbor_pos))
                       ELSE ExpandNeighbors(Tail(neighbors), current_pos, goal, closed,
                                            nodes, heap)

\* mutant: the path is not reversed
RECURSIVE reconstruct_path_unreversed(_, _)
reconstruct_path_unreversed(nodes, end) ==
    IF nodes[end].parent = <<>> THEN <<end>>
    ELSE <<end>> \o reconstruct_path_unreversed(nodes, nodes[end].parent[1])

\* _reconstruct_path: follow the parent references, then reverse
RECURSIVE reconstruct_path(_, _)
reconstruct_path(nodes, end) ==
    IF nodes[end].parent = <<>> THEN <<end>>
    ELSE Append(reconstruct_path(nodes, nodes[end].parent[1]), end)

\* int(v) of the exact quotient a / n, n > 0: truncation toward zero
TruncDiv(a, n) == IF a >= 0 THEN a \div n ELSE 0 - ((0 - a) \div n)

Max(a, b) == IF a >= b THEN a ELSE b

\* max(2, int(distance / 15)): floor(sqrt(d2) / 15) = floor(sqrt(d2 / 225))
NumWaypoints(start, goal) == Max(2, ISqrt(Dist2(start, goal) \div 225))

\* waypoint i of n on the line; progress = i / n, the products taken exactly
DirectWaypoint(start, goal, i, n) ==
    [x |-> TruncDiv(start.x * n + (goal.x - start.x) * i, n),
     y |-> TruncDiv(start.y * n + (goal.y - start.y) * i, n)]

\* mutant: no short-distance branch and no minimum of two waypoints
create_direct_path_nomin(start, goal) ==
    [i \in 1..ISqrt(Dist2(start, goal) \div 225) |->
        DirectWaypoint(start, goal, i, ISqrt(Dist2(start, goal) \div 225))]

\* mutant: range(num_waypoints) instead of range(1, num_waypoints + 1)
create_direct_path_from0(start, goal) ==
    IF DistanceLess(start, goal, 20)
    THEN << [x |-> goal.x, y |-> goal.y] >>
    ELSE [i \in 1..NumWaypoints(start, goal) |->
            DirectWaypoint(start, goal, i - 1, NumWaypoints(start, goal))]

create_direct_path(start, goal) ==
    IF DistanceLess(start, goal, 20)
    THEN << [x |-> goal.x, y |-> goal.y] >>
    ELSE [i \in 1..NumWaypoints(start, goal) |->
            DirectWaypoint(start, goal, i, NumWaypoints(start, goal))]

\* mutant: the down branch goes up
create_exploration_path_up(sp) ==
    [i \in 1..12 |->
        [x |-> sp.X + <<60, 120, 180, 180, 120, 60, 60, 120, 180, 240, 300, 360>>[i],
         y |-> sp.Y + <<0, 0, 0, 60, 60, 60, 60, 60, 60, 0, 0, 0>>[i]]]

create_exploration_path(sp) ==
    LET current_x == sp.X
        current_y == sp.Y
    IN  << [x |-> current_x + 60,  y |-> current_y],
           [x |-> current_x + 120, y |-> current_y],
           [x |-> current_x + 180, y |-> current_y],
           [x |-> current_x + 180, y |-> current_y + 60],
           [x |-> current_x + 120, y |-> current_y + 60],
           [x |-> current_x + 60,  y |-> current_y + 60],
           [x |-> current_x + 60,  y |-> current_y - 60],
           [x |-> current_x + 120, y |-> current_y - 60],
           [x |-> current_x + 180, y |-> current_y - 60],
           [x |-> current_x + 240, y |-> current_y],
           [x |-> current_x + 300, y |-> current_y],
           [x |-> current_x + 360, y |-> current_y] >>

\* the extended search of create_intelligent_path: looser keywords, no type
\* code, no deduplication
ExtendedExitsOfEntity(entity) ==
    LET entity_path == Lower(Get(entity, "Path", <<>>))
    IN  IF AnyKeyword(entity_path, ExtendedKeywords) /\ HasGridPosition(entity)
        THEN <<GridPositionOf(entity)>> ELSE <<>>

RECURSIVE ExtendedExits(_)
ExtendedExits(ents) ==
    IF ents = <<>> THEN <<>>
    ELSE ExtendedExitsOfEntity(Head(ents)) \o ExtendedExits(Tail(ents))

\* mutant: no extended search after an empty first pass
IdentifiedExits_noretry(ents) == find_zone_exits(ents)

\* exits as create_intelligent_path holds them when it selects the target
IdentifiedExits(ents) ==
    IF find_zone_exits(ents) # <<>> THEN find_zone_exits(ents) ELSE ExtendedExits(ents)

(***************************************************************************)
(* coordinate_fix.CoordinateFix.  The repository has two builds of the     *)
(* class: src/aqueduct_automation/coordinate_fix.py and the Deploy         *)
(* package's coordinate_fix.py, which adds the inversion flags; the        *)
(* operators of the latter are prefixed Deploy_.  A screen point is the    *)
(* tuple <<x, y>>.  The offsets (grid - 500) * 1.5 are floats with an      *)
(* exact binary value; they are kept here in halves.  grid * scale of the  *)
(* Deploy build is kept in thousandths as the exact product: on the        *)
(* windows and grid coordinates enumerated below int() of the float sum    *)
(* and of the exact sum are the same integer.                              *)
(***************************************************************************)
Min(a, b) == IF a <= b THEN a ELSE b

\* not self.game_window: None and the empty dict are both false
NoWindow(gw) == gw = <<>> \/ DOMAIN gw[1] = {}

WindowWidth(gw) == Get(gw[1], "Width", 1920)

WindowHeight(gw) == Get(gw[1], "Height", 1080)

\* min(width / 1000, height / 1000), in thousandths
ScaleOfWindow(window_info) ==
    Min(Get(window_info, "Width", 1920), Get(window_info, "Height", 1080))

get_screen_center(gw) ==
    IF NoWindow(gw) THEN <<960, 540>>
    ELSE <<WindowWidth(gw) \div 2, WindowHeight(gw) \div 2>>

\* src/aqueduct_automation build
convert_grid_to_screen(gw, grid_x, grid_y) ==
    LET offset_x == (grid_x - 500) * 3
        offset_y == (grid_y - 300) * 3
    IN  IF NoWindow(gw)
        THEN <<Max(100, Min(TruncDiv(2 * 960 + offset_x, 2), 1820)),
               Max(100, Min(TruncDiv(2 * 540 + offset_y, 2), 980))>>
        ELSE LET window_width == WindowWidth(gw)
                 window_height == WindowHeight(gw)
                 center_x == window_width \div 2
                 center_y == window_height \div 2
                 margin == 100
             IN  <<Max(margin, Min(TruncDiv(2 * center_x + offset_x, 2),
                                   window_width - margin)),
                   Max(margin, Min(TruncDiv(2 * center_y + offset_y, 2),
                                   window_height - margin))>>

\* the inversion and swap steps: x and y negated under their flags, then
\* exchanged under swap_xy
ApplyFixes(inv_x, inv_y, swap, x, y) ==
    LET fixed_x == IF inv_x THEN 0 - x ELSE x
        fixed_y == IF inv_y THEN 0 - y ELSE y
    IN  IF swap THEN <<fixed_y, fixed_x>> ELSE <<fixed_x, fixed_y>>

\* mutant: invert_y negates the x offset and invert_x the y offset
Deploy_convert_grid_to_screen_crossed(gw, scale, inv_x, inv_y, swap, grid_x, grid_y) ==
    IF NoWindow(gw)
    THEN LET raw_offset == ApplyFixes(inv_y, inv_x, swap, (grid_x - 500) * 3, (grid_y - 300) * 3)
         IN  <<Max(100, Min(TruncDiv(2 * 960 + raw_offset[1], 2), 1820)),
               Max(100, Min(TruncDiv(2 * 540 + raw_offset[2], 2), 980))>>
    ELSE LET window_width == WindowWidth(gw)
             window_height == WindowHeight(gw)
             center_x == window_width \div 2
             center_y == window_height \div 2
             raw == ApplyFixes(inv_y, inv_x, swap, grid_x * scale, grid_y * scale)
         IN  <<Max(50, Min(TruncDiv(1000 * center_x + raw[1], 1000), window_width - 50)),
               Max(50, Min(TruncDiv(1000 * center_y + raw[2], 1000), window_height - 50))>>

\* mutant: without a window the offset is taken from the grid origin
Deploy_convert_grid_to_screen_origin(gw, scale, inv_x, inv_y, swap, grid_x, grid_y) ==
    IF NoWindow(gw)
    THEN LET raw_offset == ApplyFixes(inv_x, inv_y, swap, grid_x * 3, grid_y * 3)
         IN  <<Max(100, Min(TruncDiv(2 * 960 + raw_offset[1], 2), 1820)),
               Max(100, Min(TruncDiv(2 * 540 + raw_offset[2], 2), 980))>>
    ELSE LET window_width == WindowWidth(gw)
             window_height == WindowHeight(gw)
             center_x == window_width \div 2
             center_y == window_height \div 2
             raw == ApplyFixes(inv_x, inv_y, swap, grid_x * scale, grid_y * scale)
         IN  <<Max(50, Min(TruncDiv(1000 * center_x + raw[1], 1000), window_width - 50)),
               Max(50, Min(TruncDiv(1000 * center_y + raw[2], 1000), window_height - 50))>>

\* mutant: the upper clamp is skipped when a window is set
Deploy_convert_grid_to_screen_unclamped(gw, scale, inv_x, inv_y, swap, grid_x, grid_y) ==
    IF NoWindow(gw)
    THEN LET raw_offset == ApplyFixes(inv_x, inv_y, swap, (grid_x - 500) * 3, (grid_y - 300) * 3)
         IN  <<Max(100, Min(TruncDiv(2 * 960 + raw_offset[1], 2), 1820)),
               Max(100, Min(TruncDiv(2 * 540 + raw_offset[2], 2), 980))>>
    ELSE LET window_width == WindowWidth(gw)
             window_height == WindowHeight(gw)
             center_x == window_width \div 2
             center_y == window_height \div 2
             raw == ApplyFixes(inv_x, inv_y, swap, grid_x * scale, grid_y * scale)
         IN  <<Max(50, TruncDiv(1000 * center_x + raw[1], 1000)),
               Max(50, TruncDiv(1000 * center_y + raw[2], 1000))>>

\* Deploy build
Deploy_convert_grid_to_screen(gw, scale, inv_x, inv_y, swap, grid_x, grid_y) ==
    IF NoWindow(gw)
    THEN LET raw_offset == ApplyFixes(inv_x, inv_y, swap, (grid_x - 500) * 3, (grid_y - 300) * 3)
         IN  <<Max(100, Min(TruncDiv(2 * 960 + raw_offset[1], 2), 1820)),
               Max(100, Min(TruncDiv(2 * 540 + raw_offset[2], 2), 980))>>
    ELSE LET window_width == WindowWidth(gw)
             window_height == WindowHeight(gw)
             center_x == window_width \div 2
             center_y == window_height \div 2
             raw == ApplyFixes(inv_x, inv_y, swap, grid_x * scale, grid_y * scale)
         IN  <<Max(50, Min(TruncDiv(1000 * center_x + raw[1], 1000), window_width - 50)),
               Max(50, Min(TruncDiv(1000 * center_y + raw[2], 1000), window_height - 50))>>

\* the same in both builds
is_valid_screen_position(gw, x, y) ==
    IF x < 10 \/ y < 10 THEN FALSE
    ELSE IF NoWindow(gw) THEN x <= 1920 /\ y <= 1080
         ELSE x <= WindowWidth(gw) - 10 /\ y <= WindowHeight(gw) - 10

\* mutant: a valid screen position reported with the entity is trusted
get_entity_click_position_screen(gw, entity) ==
    LET grid_pos == Get(entity, "GridPosition", EmptyDict)
        screen_pos == Get(entity, "location_on_screen", EmptyDict)
    IN  IF DOMAIN screen_pos # {}
           /\ is_valid_screen_position(gw, Get(screen_pos, "X", 0), Get(screen_pos, "Y", 0))
        THEN <<Get(screen_pos, "X", 0), Get(screen_pos, "Y", 0)>>
        ELSE IF DOMAIN grid_pos # {}
             THEN LET pt == convert_grid_to_screen(gw, Get(grid_pos, "X", 0),
                                                   Get(grid_pos, "Y", 0))
                  IN  IF is_valid_screen_position(gw, pt[1], pt[2]) THEN pt
                      ELSE get_screen_center(gw)
             ELSE get_screen_center(gw)

\* src/aqueduct_automation build; if grid_pos: a dict is true when it has a key
get_entity_click_position(gw, entity) ==
    LET grid_pos == Get(entity, "GridPosition", EmptyDict)
    IN  IF DOMAIN grid_pos # {}
        THEN LET pt == convert_grid_to_screen(gw, Get(grid_pos, "X", 0),
                                              Get(grid_pos, "Y", 0))
             IN  IF is_valid_screen_position(gw, pt[1], pt[2]) THEN pt
                 ELSE get_screen_center(gw)
        ELSE get_screen_center(gw)

\* Deploy build
Deploy_get_entity_click_position(gw, scale, inv_x, inv_y, swap, entity) ==
    LET grid_pos == Get(entity, "GridPosition", EmptyDict)
    IN  IF DOMAIN grid_pos # {}
        THEN LET pt == Deploy_convert_grid_to_screen(gw, scale, inv_x, inv_y, swap,
                                                     Get(grid_pos, "X", 0),
                                                     Get(grid_pos, "Y", 0))
             IN  IF is_valid_screen_position(gw, pt[1], pt[2]) THEN pt
                 ELSE get_screen_center(gw)
        ELSE get_screen_center(gw)

\* Deploy build: fix_combinations of test_coordinate_conversion
fix_combinations ==
    <<[name |-> "normal", invert_x |-> FALSE, invert_y |-> FALSE, swap_xy |-> FALSE],
      [name |-> "invert_y", invert_x |-> FALSE, invert_y |-> TRUE, swap_xy |-> FALSE],
      [name |-> "invert_x", invert_x |-> TRUE, invert_y |-> FALSE, swap_xy |-> FALSE],
      [name |-> "invert_both", invert_x |-> TRUE, invert_y |-> TRUE, swap_xy |-> FALSE],
      [name |-> "swap_xy", invert_x |-> FALSE, invert_y |-> FALSE, swap_xy |-> TRUE],
      [name |-> "swap_invert_y", invert_x |-> FALSE, invert_y |-> TRUE, swap_xy |-> TRUE]>>

\* for name, inv_x, inv_y, swap in fix_combinations, from the k-th on: the
\* flags are set, the point is converted under them and stored by name
RECURSIVE TestCombinationsFrom(_, _, _, _, _, _)
TestCombinationsFrom(gw, scale, player_x, player_y, k, self) ==
    IF k > Len(fix_combinations) THEN self
    ELSE LET c == fix_combinations[k]
             pt == Deploy_convert_grid_to_screen(gw, scale, c.invert_x, c.invert_y,
                                                 c.swap_xy, player_x, player_y)
         IN  TestCombinationsFrom(gw, scale, player_x, player_y, k + 1,
                 [invert_x |-> c.invert_x, invert_y |-> c.invert_y, swap_xy |-> c.swap_xy,
                  results |-> [n \in DOMAIN self.results \cup {c.name} |->
                                  IF n = c.name THEN pt ELSE self.results[n]]])

\* mutant: the flags of the last combination stay set
test_coordinate_conversion_norestore(gw, scale, inv_x, inv_y, swap, player_x, player_y) ==
    TestCombinationsFrom(gw, scale, player_x, player_y, 1,
        [invert_x |-> inv_x, invert_y |-> inv_y, swap_xy |-> swap, results |-> EmptyDict])

\* Deploy build: the flags after the call, and the dict it returns
test_coordinate_conversion(gw, scale, inv_x, inv_y, swap, player_x, player_y) ==
    LET tested == TestCombinationsFrom(gw, scale, player_x, player_y, 1,
                      [invert_x |-> inv_x, invert_y |-> inv_y, swap_xy |-> swap,
                       results |-> EmptyDict])
    IN  [tested EXCEPT !.invert_x = inv_x, !.invert_y = inv_y, !.swap_xy = swap]

\* mutant: the converted point is returned without the validity check
get_movement_position_unchecked(gw, world_x, world_y) ==
    <<convert_grid_to_screen(gw, world_x, world_y)>>

\* Optional[Tuple]: None when the converted point is not valid
get_movement_position(gw, world_x, world_y) ==
    LET pt == convert_grid_to_screen(gw, world_x, world_y)
    IN  IF is_valid_screen_position(gw, pt[1], pt[2]) THEN <<pt>> ELSE <<>>

\* mutant: the offset point is returned without the validity check
get_safe_click_near_player_unchecked(gw, player) ==
    IF player = <<>> THEN <<960, 540>>
    ELSE
    LET pt == convert_grid_to_screen(gw, Get(player[1], "X", 500), Get(player[1], "Y", 300))
    IN  <<pt[1] + 50, pt[2] + 30>>

\* player is Optional: on None player_pos.get raises and the except branch
\* returns (960, 540)
get_safe_click_near_player(gw, player) ==
    IF player = <<>> THEN <<960, 540>>
    ELSE
    LET pt == convert_grid_to_screen(gw, Get(player[1], "X", 500), Get(player[1], "Y", 300))
        screen_x == pt[1] + 50
        screen_y == pt[2] + 30
    IN  IF is_valid_screen_position(gw, screen_x, screen_y) THEN <<screen_x, screen_y>>
        ELSE IF ~NoWindow(gw)
             THEN <<WindowWidth(gw) \div 2, WindowHeight(gw) \div 2>>
             ELSE <<960, 540>>

(***************************************************************************)
(* pathfinding.PathfindingEngine.  Costs are floats: a g_cost is a sum of   *)
(* 1.0 and 1.414 and is kept exactly, in millionths; an h_cost is a square  *)
(* root and is kept in millionths, rounded down.                           *)
(***************************************************************************)
RECURSIVE TerrainGridNeighborsFrom(_, _, _)
TerrainGridNeighborsFrom(t, pos, k) ==
    IF k > Len(Directions) THEN <<>>
    ELSE (IF TerrainGrid_is_walkable(t, pos.x + Directions[k][1], pos.y + Directions[k][2])
          THEN <<Position(pos.x + Directions[k][1], pos.y + Directions[k][2])>>
          ELSE <<>>) \o TerrainGridNeighborsFrom(t, pos, k + 1)

\* mutant: every cell of the grid next to pos, walkable or not
TerrainGrid_get_neighbors_inbounds(t, pos) ==
    SelectSeq([k \in 1..Len(Directions) |->
                  Position(pos.x + Directions[k][1], pos.y + Directions[k][2])],
              LAMBDA q : TerrainGrid_is_valid_position(t, q.x, q.y))

TerrainGrid_get_neighbors(t, pos) == TerrainGridNeighborsFrom(t, pos, 1)

get_movement_cost(from_pos, to_pos) ==
    LET dx == Abs(to_pos.x - from_pos.x)
        dy == Abs(to_pos.y - from_pos.y)
    IN  IF dx = 1 /\ dy = 1 THEN 1414000 ELSE 1000000

\* the largest t in lo..hi with (1000 * r + t) ^ 2 <= 10 ^ 6 * (r * r + rem),
\* the products kept within 32 bits
RECURSIVE MilliDigitsIn(_, _, _, _)
MilliDigitsIn(r, rem, lo, hi) ==
    IF lo >= hi THEN lo
    ELSE LET mid == (lo + hi + 1) \div 2
         IN  IF 2 * r * mid + (mid * mid + 999) \div 1000 <= 1000 * rem
             THEN MilliDigitsIn(r, rem, mid, hi)
             ELSE MilliDigitsIn(r, rem, lo, mid - 1)

\* Position.distance_to in millionths: the thousandths by ISqrt, then three
\* more digits
distance_to_micro(p, q) ==
    LET r == ISqrt(Dist2(p, q) * 1000 * 1000)
    IN  1000 * r + MilliDigitsIn(r, Dist2(p, q) * 1000 * 1000 - r * r, 0, 999)

\* the body of "for neighbor_pos in ...get_neighbors(current_pos)", threading
\* nodes_map and open_set; a better path rewrites the node where it lies in
\* the heap and pushes nothing
RECURSIVE find_path_expand(_, _, _, _, _, _)
find_path_expand(neighbors, current_pos, end, closed, nodes, heap) ==
    IF neighbors = <<>> THEN [nodes |-> nodes, heap |-> heap]
    ELSE LET neighbor_pos == Head(neighbors)
             movement_cost == get_movement_cost(current_pos, neighbor_pos)
             tentative_g_cost == nodes[current_pos].g_cost + movement_cost
         IN  IF neighbor_pos \in closed
             THEN find_path_expand(Tail(neighbors), current_pos, end, closed, nodes, heap)
             ELSE IF neighbor_pos \notin DOMAIN nodes
                  THEN LET nodes1 == nodes @@ (neighbor_pos :>
                                        PathNode(neighbor_pos, tentative_g_cost,
                                                 distance_to_micro(neighbor_pos, end),
                                                 <<current_pos>>))
                       IN  find_path_expand(Tail(neighbors), current_pos, end, closed,
                                            nodes1, HeapPush(nodes1, heap, neighbor_pos))
                  ELSE IF tentative_g_cost < nodes[neighbor_pos].g_cost
                       THEN find_path_expand(Tail(neighbors), current_pos, end, closed,
                                             [nodes EXCEPT
                                                ![neighbor_pos].g_cost = tentative_g_cost,
                                                ![neighbor_pos].parent = <<current_pos>>],
                                             heap)
                       ELSE find_path_expand(Tail(neighbors), current_pos, end, closed,
                                             nodes, heap)

\* "while open_set": the path, or the empty list when the open set runs empty
RECURSIVE find_path_search(_, _, _, _, _)
find_path_search(t, end, nodes, heap, closed) ==
    IF heap = <<>> THEN <<>>
    ELSE LET popped == HeapPop(nodes, heap)
             current_pos == popped.item
         IN  IF current_pos = end THEN reconstruct_path(nodes, current_pos)
             ELSE LET closed1 == closed \cup {current_pos}
                      expanded == find_path_expand(TerrainGrid_get_neighbors(t, current_pos),
                                                   current_pos, end, closed1, nodes, popped.heap)
                  IN  find_path_search(t, end, expanded.nodes, expanded.heap, closed1)

\* PathfindingEngine.find_path; t is current_terrain, Unbuilt for None
find_path(t, start, end) ==
    IF ~t.built THEN <<>>
    ELSE IF ~TerrainGrid_is_walkable(t, start.x, start.y) THEN <<>>
    ELSE IF ~TerrainGrid_is_walkable(t, end.x, end.y) THEN <<>>
    ELSE LET nodes_map == (start :> PathNode(start, 0, distance_to_micro(start, end), <<>>))
         IN  find_path_search(t, end, nodes_map, HeapPush(nodes_map, <<>>, start), {})

\* _generate_waypoints_along_direction, from "for i in range(i, 10)" on
RECURSIVE GenerateWaypointsFrom(_, _, _, _, _)
GenerateWaypointsFrom(t, start, direction, spacing, i) ==
    IF i >= 10 THEN <<>>
    ELSE LET next_pos == Position(start.x + direction[1] * spacing * i,
                                  start.y + direction[2] * spacing * i)
         IN  IF TerrainGrid_is_valid_position(t, next_pos.x, next_pos.y)
             THEN <<next_pos>> \o GenerateWaypointsFrom(t, start, direction, spacing, i + 1)
             ELSE <<>>

generate_waypoints_along_direction(t, start, direction, spacing) ==
    GenerateWaypointsFrom(t, start, direction, spacing, 1)

detect_aqueduct_direction(start) == <<1, 0>>

\* "for i, waypoint in enumerate(waypoints)": a found segment is appended
\* without its first position and the waypoint becomes current
RECURSIVE LinkWaypoints(_, _, _, _)
LinkWaypoints(t, waypoints, current, linked) ==
    IF waypoints = <<>> THEN linked
    ELSE LET segment_path == find_path(t, current, Head(waypoints))
         IN  IF segment_path # <<>>
             THEN LinkWaypoints(t, Tail(waypoints), Head(waypoints),
                                linked \o Tail(segment_path))
             ELSE LinkWaypoints(t, Tail(waypoints), current, linked)

create_linear_aqueduct_path(t, start) ==
    LinkWaypoints(t,
                  generate_waypoints_along_direction(t, start,
                                                     detect_aqueduct_direction(start), 20),
                  start, <<start>>)

create_fallback_path(pos) ==
    [i \in 1..10 |-> [x |-> pos.X + (i - 1) * 20, y |-> pos.Y]]

SimpleOffsets ==
    << <<15, 0>>, <<30, 0>>, <<45, 0>>, <<60, -10>>, <<75, -10>>, <<90, 0>>, <<105, 0>>,
       <<120, 0>>, <<135, 0>>, <<150, 10>>, <<165, 10>>, <<180, 0>>, <<195, 0>>, <<210, 0>> >>

\* the waypoint list without its first element, the start position
create_simple_aqueduct_path(pos) ==
    [i \in 1..Len(SimpleOffsets) |->
        [x |-> pos.X + SimpleOffsets[i][1], y |-> pos.Y + SimpleOffsets[i][2]]]

\* create_aqueduct_path: the terrain it leaves in current_terrain and the
\* path it returns
create_aqueduct_path(text, pos) ==
    LET current_terrain == TerrainGrid(text)
        linear == create_linear_aqueduct_path(current_terrain, Position(pos.X, pos.Y))
    IN  [terrain |-> current_terrain,
         path |-> IF current_terrain.grid = <<>> THEN create_fallback_path(pos)
                  ELSE IF Len(linear) > 1
                       THEN [i \in 1..Len(linear) |-> [x |-> linear[i].x, y |-> linear[i].y]]
                       ELSE create_simple_aqueduct_path(pos)]

(***************************************************************************)
(* resource_manager.  Percentages are floats; they are kept in hundredths   *)
(* of a percent, rounded down, which leaves every comparison with a        *)
(* threshold as it is.  Flask presses change only last_flask_use and the   *)
(* usage counters, which neither should_retreat nor the panic flag reads;  *)
(* they are left out.                                                      *)
(***************************************************************************)
\* ResourceConfig(): the retreat settings
ResourceConfig ==
    [retreat_health_threshold |-> 2500, retreat_es_threshold |-> 2000,
     panic_mode_threshold |-> 1500]

\* create_resource_config("low_life")
LowLifeConfig == [ResourceConfig EXCEPT !.retreat_health_threshold = 1000]

\* ResourceStatus(): the dataclass defaults
ResourceStatus == [health_percentage |-> 0, es_percentage |-> 0]

\* ResourceManager.__init__
ResourceManager(config) ==
    [config |-> config, current_status |-> ResourceStatus,
     in_panic_mode |-> FALSE, retreat_requested |-> FALSE]

\* current / max * 100 if max > 0 else 0, for the dict of one resource
PercentageOf(resource) ==
    LET current == Get(resource, "Current", 0)
        total == Get(resource, "Total", 1)
    IN  IF total > 0 THEN (current * 10000) \div total ELSE 0

\* update_resource_status: an empty life_data leaves the status as it is
update_resource_status(status, life_data) ==
    IF DOMAIN life_data = {} THEN status
    ELSE [health_percentage |-> PercentageOf(Get(life_data, "Health", EmptyDict)),
          es_percentage |-> PercentageOf(Get(life_data, "EnergyShield", EmptyDict))]

ResourceStatus_should_retreat(status, config) ==
    \/ status.health_percentage < config.retreat_health_threshold
    \/ status.es_percentage < config.retreat_es_threshold

ResourceStatus_is_panic_mode(status, config) ==
    status.health_percentage < config.panic_mode_threshold

\* check_and_use_flasks with life_data the answer of _get_life_data()
check_and_use_flasks(m, life_data) ==
    LET status == update_resource_status(m.current_status, life_data)
    IN  [m EXCEPT !.current_status = status,
                  !.in_panic_mode = @ \/ ResourceStatus_is_panic_mode(status, m.config),
                  !.retreat_requested = @ \/ ResourceStatus_should_retreat(status, m.config)]

\* ResourceManager.should_retreat
ResourceManager_should_retreat(m) ==
    m.retreat_requested \/ ResourceStatus_should_retreat(m.current_status, m.config)

\* clear_retreat_request; reset_run_stats and reset_all_stats clear the same flags
clear_retreat_request(m) ==
    [m EXCEPT !.retreat_requested = FALSE, !.in_panic_mode = FALSE]

(***************************************************************************)
(* main.AqueductAutomation.farm_aqueduct.  farm_log lists the calls of one  *)
(* run in the order the code makes them.                                   *)
(***************************************************************************)
\* no farming run has started
FarmIdle ==
    [phase |-> "idle", path |-> <<>>, i |-> 0, successful_moves |-> 0,
     monsters_killed |-> 0, items_collected |-> 0]

FarmEvent(event, f, ok) == [event |-> event, index |-> f.i + 1, ok |-> ok]

\* every step of the loop body runs whatever move_to_position answered
farm_waypoint_alwayschecks(f, log, m, moved, enemies, killed, loot_collected, life_data, full) ==
    LET attempt == [event |-> "move", index |-> f.i + 1, target |-> f.path[f.i + 1], ok |-> moved]
        m2 == check_and_use_flasks(m, life_data)
        retreat == ResourceManager_should_retreat(m2)
        stop == full \/ retreat
        exhausted == f.i + 1 = Len(f.path)
    IN  [farm |-> [f EXCEPT !.i = @ + 1,
                            !.successful_moves = @ + 1,
                            !.monsters_killed = @ + (IF enemies THEN killed ELSE 0),
                            !.items_collected = @ + loot_collected,
                            !.phase = IF stop \/ exhausted THEN "done" ELSE @],
         log |-> log \o <<attempt, FarmEvent("scan_for_enemies", f, enemies),
                           FarmEvent("collect_nearby_loot", f, TRUE),
                           FarmEvent("check_and_use_flasks", f, TRUE),
                           FarmEvent("is_inventory_full", f, full)>>
                     \o (IF full THEN <<>> ELSE <<FarmEvent("should_retreat", f, retreat)>>),
         rm |-> m2]

\* one pass of "for i, waypoint in enumerate(path)": moved, enemies, killed,
\* loot_collected, life_data and full are what move_to_position,
\* scan_for_enemies, engage_combat, collect_nearby_loot, _get_life_data and
\* is_inventory_full answer
farm_waypoint(f, log, m, moved, enemies, killed, loot_collected, life_data, full) ==
    LET attempt == [event |-> "move", index |-> f.i + 1, target |-> f.path[f.i + 1], ok |-> moved]
        m2 == check_and_use_flasks(m, life_data)
        retreat == ResourceManager_should_retreat(m2)
        stop == full \/ retreat
        exhausted == f.i + 1 = Len(f.path)
    IN  IF moved
        THEN [farm |-> [f EXCEPT !.i = @ + 1,
                                 !.successful_moves = @ + 1,
                                 !.monsters_killed = @ + (IF enemies THEN killed ELSE 0),
                                 !.items_collected = @ + loot_collected,
                                 !.phase = IF stop \/ exhausted THEN "done" ELSE @],
              log |-> log \o <<attempt, FarmEvent("scan_for_enemies", f, enemies),
                                FarmEvent("collect_nearby_loot", f, TRUE),
                                FarmEvent("check_and_use_flasks", f, TRUE),
                                FarmEvent("is_inventory_full", f, full)>>
                          \o (IF full THEN <<>> ELSE <<FarmEvent("should_retreat", f, retreat)>>),
              rm |-> m2]
        ELSE [farm |-> [f EXCEPT !.i = @ + 1,
                                 !.phase = IF exhausted THEN "done" ELSE @],
              log |-> Append(log, attempt),
              rm |-> m]

\* utils.calculate_distance.  The float math.sqrt(r) is represented by its
\* radicand r: sqrt is strictly increasing on the non-negative integers, so
\* results are equal, or ordered, exactly as their radicands are.
calculate_distance(pos1, pos2) ==
    LET x1 == Get(pos1, "X", 0)
        y1 == Get(pos1, "Y", 0)
        x2 == Get(pos2, "X", 0)
        y2 == Get(pos2, "Y", 0)
        dx == x2 - x1
        dy == y2 - y1
    IN  dx * dx + dy * dy

(***************************************************************************)
(* Entity snapshots for the zone analysis.                                 *)
(***************************************************************************)
ZoneEntityKinds ==
    { [Path |-> <<"M", "e", "t", "a", "d", "a", "t", "a", "/", "D", "o", "o", "r">>, EntityType |-> 0, GridPosition |-> [X |-> 0, Y |-> 0]],
      [Path |-> <<"D", "O", "O", "R", "_", "1">>, EntityType |-> 0, GridPosition |-> [X |-> 5, Y |-> 0]],
      [Path |-> <<"Z", "o", "n", "e", "E", "x", "i", "t">>, EntityType |-> 1, GridPosition |-> [X |-> 8, Y |-> 0]],
      [Path |-> <<"M", "o", "n", "s", "t", "e", "r">>, EntityType |-> 2, GridPosition |-> [X |-> 16, Y |-> 0]],
      [Path |-> <<"M", "o", "n", "s", "t", "e", "r">>, EntityType |-> 0, GridPosition |-> [X |-> 30, Y |-> 0]],
      [Path |-> <<"W", "a", "y", "p", "o", "i", "n", "t">>, EntityType |-> 0],
      [Path |-> <<"T", "e", "l", "e", "p", "o", "r", "t">>, EntityType |-> 0, GridPosition |-> [X |-> 0, Y |-> 10]],
      [EntityType |-> 4, GridPosition |-> [Y |-> 10]],
      [Path |-> <<"L", "a", "d", "d", "e", "r">>, EntityType |-> 3, GridPosition |-> [X |-> 10]] }

ZonePlayerPositions == {Position(0, 0), Position(5, 5)}

ZoneIdle ==
    /\ entities = <<>>
    /\ player_pos = Position(0, 0)
    /\ exit_candidates = <<>>
    /\ exits = <<>>
    /\ optimal = <<>>

PathIdle ==
    /\ start_pos = [X |-> 0, Y |-> 0]
    /\ open_set = <<>>
    /\ closed_set = {}
    /\ nodes_dict = EmptyDict
    /\ astar_path = <<>>
    /\ path = <<>>
    /\ method = "none"

TerrainIdle ==
    /\ terrain_string = <<>>
    /\ terrain_rows = <<>>
    /\ tg = Unbuilt
    /\ ta = Unbuilt

WalkIdle ==
    /\ tg_cell = <<>>
    /\ tg_walkable = <<>>
    /\ ta_cell = <<>>
    /\ ta_walkable = <<>>

DistIdle ==
    /\ pos_p = Position(0, 0)
    /\ pos_q = Position(0, 0)
    /\ measurements = <<>>

\* CoordinateFix.__init__
CoordNew ==
    /\ game_window = <<>>
    /\ grid_to_screen_scale = 1000
    /\ invert_x = FALSE
    /\ invert_y = TRUE
    /\ swap_xy = FALSE
    /\ conversions = <<>>
    /\ valid_call = <<>>
    /\ click_call = <<>>
    /\ position_call = <<>>

AutomationIdle ==
    /\ distance_call = <<>>
    /\ engine_call = <<>>
    /\ rm = ResourceManager(ResourceConfig)
    /\ rm_history = [received |-> FALSE, low |-> FALSE]
    /\ retreat_call = <<>>
    /\ farm = FarmIdle
    /\ farm_log = <<>>
    /\ test_call = <<>>

QueryIdle == WalkIdle /\ DistIdle /\ CoordNew /\ AutomationIdle

(***************************************************************************)
(* Specification SpecTerrain: both grid classes built on one snapshot.     *)
(***************************************************************************)
InitTerrain ==
    /\ \/ \E rows \in RectRows, cs \in ColSeps, rs \in RowSeps, m \in Margins :
            /\ terrain_rows = rows
            /\ terrain_string = Serialise(rows, cs, rs, m[1], m[2])
       \/ /\ terrain_rows = <<>>
          /\ terrain_string \in OddSnapshots
    /\ tg = Unbuilt
    /\ ta = Unbuilt
    /\ ZoneIdle
    /\ PathIdle
    /\ QueryIdle
    /\ pc = "terrain"

\* TerrainGrid.__init__
TerrainGridInit ==
    /\ pc = "terrain"
    /\ ~tg.built
    /\ tg' = TerrainGrid(terrain_string)
    /\ UNCHANGED <<terrain_string, terrain_rows, ta, pc, zoneVars, pathVars, queryVars>>

\* TerrainAnalyzer.__init__
TerrainAnalyzerInit ==
    /\ pc = "terrain"
    /\ ~ta.built
    /\ ta' = TerrainAnalyzer(terrain_string)
    /\ UNCHANGED <<terrain_string, terrain_rows, tg, pc, zoneVars, pathVars, queryVars>>

NextTerrain == TerrainGridInit \/ TerrainAnalyzerInit

SpecTerrain == InitTerrain /\ [][NextTerrain]_vars

(***************************************************************************)
(* Specification SpecWalk: both grid classes built on one snapshot and     *)
(* asked about cells inside and outside the grid.                          *)
(***************************************************************************)
WalkRows ==
    { <<<<49, 50>>, <<51, 52>>>>,
      <<<<51, 49>>, <<49, 51>>>>,
      <<<<50, 7>>>>,
      <<<<51, 50, 52>>, <<51>>>>,
      <<<<51>>, <<50, 52>>>> }

WalkOddSnapshots ==
    { <<>>,
      <<" ">>,
      <<"5", "1", " ", "x">>,
      <<"5", "1", "\n", "\n", "5", "0">> }

WalkXs == -1..(MaxCols + 1)

WalkYs == -1..(MaxRows + 1)

InitWalk ==
    /\ \/ /\ terrain_rows \in WalkRows
          /\ terrain_string = Serialise(terrain_rows, <<" ">>, <<"\n">>, <<>>, <<>>)
       \/ /\ terrain_rows = <<>>
          /\ terrain_string \in WalkOddSnapshots
    /\ tg = Unbuilt
    /\ ta = Unbuilt
    /\ ZoneIdle
    /\ PathIdle
    /\ QueryIdle
    /\ pc = "terrain"

\* TerrainGrid.is_walkable(x, y)
TerrainGridIsWalkable ==
    /\ tg.built
    /\ \E x \in WalkXs, y \in WalkYs :
          /\ tg_cell' = <<Position(x, y)>>
          /\ tg_walkable' = <<TerrainGrid_is_walkable(tg, x, y)>>
    /\ UNCHANGED <<terrainVars, zoneVars, pathVars, pc, ta_cell, ta_walkable,
                   distVars, coordVars, automationVars>>

\* TerrainAnalyzer.is_walkable(x, y)
TerrainAnalyzerIsWalkable ==
    /\ ta.built
    /\ \E x \in WalkXs, y \in WalkYs :
          /\ ta_cell' = <<Position(x, y)>>
          /\ ta_walkable' = <<TerrainAnalyzer_is_walkable(ta, x, y)>>
    /\ UNCHANGED <<terrainVars, zoneVars, pathVars, pc, tg_cell, tg_walkable,
                   distVars, coordVars, automationVars>>

NextWalk ==
    \/ TerrainGridInit
    \/ TerrainAnalyzerInit
    \/ TerrainGridIsWalkable
    \/ TerrainAnalyzerIsWalkable

SpecWalk == InitWalk /\ [][NextWalk]_vars

(***************************************************************************)
(* Specification SpecDist: the distance methods of the two Position        *)
(* classes called on two positions, in either order.                       *)
(***************************************************************************)
DistPositions == {Position(0, 0), Position(3, -4), Position(-1, 7), Position(10, 10)}

PositionClasses == {"pathfinding", "intelligent_pathfinding"}

InitDist ==
    /\ TerrainIdle
    /\ ZoneIdle
    /\ PathIdle
    /\ WalkIdle
    /\ CoordNew
    /\ AutomationIdle
    /\ pos_p \in DistPositions
    /\ pos_q \in DistPositions
    /\ measurements = <<>>
    /\ pc = "measure"

Measure(cls, meth, self, other, result) ==
    /\ Len(measurements) < MaxMeasurements
    /\ measurements' = Append(measurements,
                              [cls |-> cls, meth |-> meth, self |-> self,
                               other |-> other, result |-> result])
    /\ UNCHANGED <<terrainVars, zoneVars, pathVars, pc, walkVars, pos_p, pos_q, coordVars,
                   automationVars>>

\* self.distance_to(other)
DistanceTo ==
    \E self \in {pos_p, pos_q}, other \in {pos_p, pos_q} :
        \/ Measure("intelligent_pathfinding", "distance_to", self, other,
                   distance_to(self, other))
        \/ Measure("pathfinding", "distance_to", self, other,
                   pathfinding_distance_to(self, other))

\* self.manhattan_distance_to(other)
ManhattanDistanceTo ==
    \E self \in {pos_p, pos_q}, other \in {pos_p, pos_q}, cls \in PositionClasses :
        Measure(cls, "manhattan_distance_to", self, other,
                manhattan_distance_to(self, other))

NextDist == DistanceTo \/ ManhattanDistanceTo

SpecDist == InitDist /\ [][NextDist]_vars

(***************************************************************************)
(* Specifications SpecCoord and SpecClick: a CoordinateFix of each build,  *)
(* calibrated by set_game_window and set_coordinate_fixes.  SpecCoord      *)
(* converts grid coordinates, SpecClick validates screen points and picks  *)
(* click positions.  conversions, valid_call and click_call record calls   *)
(* made under the current calibration and are emptied when it changes.     *)
(***************************************************************************)
Windows ==
    { <<>>,
      <<EmptyDict>>,
      <<[Width |-> 1920, Height |-> 1080]>>,
      <<[Width |-> 800, Height |-> 600]>>,
      <<[Width |-> 100, Height |-> 150]>>,
      <<[Width |-> 99, Height |-> 149]>>,
      <<[Width |-> 20, Height |-> 20]>>,
      <<[Width |-> 19, Height |-> 20]>>,
      <<[Width |-> 0, Height |-> 0]>>,
      <<[Height |-> 600]>> }

GridXs == {-1000, 500, 600, 2000}

GridYs == {-1000, 300, 301, 2000}

GridPoints ==
    {<<x, 300>> : x \in GridXs} \cup {<<500, y>> : y \in GridYs} \cup {<<2000, -1000>>}

ScreenPoints ==
    {<<x, 30>> : x \in {9, 10, 90, 91, 790, 791, 1910, 1911, 1920, 1921}}
        \cup {<<30, y>> : y \in {9, 10, 140, 141, 590, 591, 1070, 1071, 1080, 1081}}

GridPositionFields ==
    { EmptyDict,
      [GridPosition |-> EmptyDict],
      [GridPosition |-> [X |-> 504, Y |-> 271, Z |-> 0]],
      [GridPosition |-> [X |-> 2000, Y |-> -1000, Z |-> 0]] }

ScreenPositionFields ==
    { EmptyDict,
      [location_on_screen |-> [X |-> 5075, Y |-> -9539]],
      [location_on_screen |-> [X |-> 30, Y |-> 30]] }

\* the dict with the keys of both
Merge(d, e) == [k \in DOMAIN d \cup DOMAIN e |-> IF k \in DOMAIN d THEN d[k] ELSE e[k]]

ClickEntities == {Merge(g, l) : g \in GridPositionFields, l \in ScreenPositionFields}

InitCoord ==
    /\ TerrainIdle
    /\ ZoneIdle
    /\ PathIdle
    /\ WalkIdle
    /\ DistIdle
    /\ CoordNew
    /\ AutomationIdle
    /\ pc = "coord"

\* set_game_window(window_info)
SetGameWindow ==
    /\ \E window_info \in Windows :
          /\ game_window' = window_info
          /\ grid_to_screen_scale' = IF NoWindow(window_info) THEN grid_to_screen_scale
                                     ELSE ScaleOfWindow(window_info[1])
    /\ conversions' = <<>>
    /\ valid_call' = <<>>
    /\ click_call' = <<>>
    /\ position_call' = <<>>
    /\ test_call' = <<>>
    /\ UNCHANGED <<terrainVars, zoneVars, pathVars, pc, walkVars, distVars,
                   distance_call, engine_call, resourceVars, farmVars,
                   invert_x, invert_y, swap_xy>>

\* set_coordinate_fixes(invert_x, invert_y, swap_xy) of the Deploy build
SetCoordinateFixes ==
    /\ \E ix \in BOOLEAN, iy \in BOOLEAN, sw \in BOOLEAN :
          /\ invert_x' = ix
          /\ invert_y' = iy
          /\ swap_xy' = sw
    /\ conversions' = <<>>
    /\ valid_call' = <<>>
    /\ click_call' = <<>>
    /\ position_call' = <<>>
    /\ test_call' = <<>>
    /\ UNCHANGED <<terrainVars, zoneVars, pathVars, pc, walkVars, distVars,
                   distance_call, engine_call, resourceVars, farmVars,
                   game_window, grid_to_screen_scale>>

Converted(build, g, result) ==
    /\ Len(conversions) < MaxConversions
    /\ conversions' = Append(conversions,
                             [build |-> build, grid_x |-> g[1], grid_y |-> g[2],
                              result |-> result])
    /\ UNCHANGED <<terrainVars, zoneVars, pathVars, pc, walkVars, distVars,
                   automationVars, calibrationVars, valid_call, click_call,
                   position_call>>

\* convert_grid_to_screen(grid_x, grid_y), src/aqueduct_automation build
ConvertGridToScreen ==
    \E g \in GridPoints :
        Converted("main", g, convert_grid_to_screen(game_window, g[1], g[2]))

\* convert_grid_to_screen(grid_x, grid_y), Deploy build
DeployConvertGridToScreen ==
    \E g \in GridPoints :
        Converted("deploy", g,
                  Deploy_convert_grid_to_screen(game_window, grid_to_screen_scale,
                                                invert_x, invert_y, swap_xy, g[1], g[2]))

NextCoord ==
    \/ SetGameWindow
    \/ SetCoordinateFixes
    \/ ConvertGridToScreen
    \/ DeployConvertGridToScreen

SpecCoord == InitCoord /\ [][NextCoord]_vars

\* is_valid_screen_position(x, y)
IsValidScreenPosition ==
    /\ \E pt \in ScreenPoints :
          valid_call' = <<[x |-> pt[1], y |-> pt[2],
                           result |-> is_valid_screen_position(game_window, pt[1], pt[2])]>>
    /\ UNCHANGED <<terrainVars, zoneVars, pathVars, pc, walkVars, distVars,
                   automationVars, calibrationVars, conversions, click_call,
                   position_call>>

\* get_entity_click_position(entity), src/aqueduct_automation build
GetEntityClickPosition ==
    /\ \E entity \in ClickEntities :
          click_call' = <<[build |-> "main", entity |-> entity,
                           result |-> get_entity_click_position(game_window, entity)]>>
    /\ UNCHANGED <<terrainVars, zoneVars, pathVars, pc, walkVars, distVars,
                   automationVars, calibrationVars, conversions, valid_call,
                   position_call>>

\* get_entity_click_position(entity), Deploy build
DeployGetEntityClickPosition ==
    /\ \E entity \in ClickEntities :
          click_call' = <<[build |-> "deploy", entity |-> entity,
                           result |-> Deploy_get_entity_click_position(
                                          game_window, grid_to_screen_scale,
                                          invert_x, invert_y, swap_xy, entity)]>>
    /\ UNCHANGED <<terrainVars, zoneVars, pathVars, pc, walkVars, distVars,
                   automationVars, calibrationVars, conversions, valid_call,
                   position_call>>

NextClick ==
    \/ SetGameWindow
    \/ SetCoordinateFixes
    \/ IsValidScreenPosition
    \/ GetEntityClickPosition
    \/ DeployGetEntityClickPosition

SpecClick == InitCoord /\ [][NextClick]_vars

\* test_coordinate_conversion(player_x, player_y) of the Deploy build
TestCoordinateConversion ==
    /\ \E g \in GridPoints :
          LET tested == test_coordinate_conversion(game_window, grid_to_screen_scale,
                                                   invert_x, invert_y, swap_xy, g[1], g[2])
          IN  /\ invert_x' = tested.invert_x
              /\ invert_y' = tested.invert_y
              /\ swap_xy' = tested.swap_xy
              /\ test_call' = <<[player_x |-> g[1], player_y |-> g[2],
                                 results |-> tested.results]>>
    /\ UNCHANGED <<terrainVars, zoneVars, pathVars, pc, walkVars, distVars,
                   distance_call, engine_call, resourceVars, farmVars,
                   game_window, grid_to_screen_scale, callVars>>

NextCalibration ==
    \/ SetGameWindow
    \/ SetCoordinateFixes
    \/ TestCoordinateConversion
    \/ DeployGetEntityClickPosition

SpecCalibration == InitCoord /\ [][NextCalibration]_vars

(***************************************************************************)
(* Specification SpecMove: distances measured by calculate_distance and by *)
(* wait_for_movement between positions keyed in either letter case.        *)
(***************************************************************************)
\* the points of test_distance_fix.py
MovePoints == {<<524, 229>>, <<522, 235>>, <<515, 259>>, <<100, 100>>, <<103, 104>>}

\* api_client.get_player_position(): uppercase keys
UpperPositions == {[X |-> g[1], Y |-> g[2]] : g \in MovePoints}

\* pathfinder waypoints: lowercase keys
LowerPositions == {[x |-> g[1], y |-> g[2]] : g \in MovePoints}

InitMove ==
    /\ TerrainIdle
    /\ ZoneIdle
    /\ PathIdle
    /\ QueryIdle
    /\ pc = "move"

\* calculate_distance(pos1, pos2)
CalculateDistance ==
    /\ \E pos1 \in UpperPositions \cup LowerPositions,
          pos2 \in UpperPositions \cup LowerPositions :
          distance_call' = <<[op |-> "calculate_distance", pos1 |-> pos1, pos2 |-> pos2,
                              result |-> calculate_distance(pos1, pos2)]>>
    /\ UNCHANGED <<terrainVars, zoneVars, pathVars, pc, walkVars, distVars, coordVars,
                   engine_call, resourceVars, farmVars, test_call>>

\* wait_for_movement(target_pos): the polls of the loop decide only when it
\* ends; the result is final_distance < 35 for the position read last
WaitForMovement ==
    /\ \E final_pos \in UpperPositions, target_pos \in LowerPositions :
          LET final_distance == calculate_distance(final_pos, target_pos)
          IN  distance_call' = <<[op |-> "wait_for_movement", pos1 |-> final_pos,
                                  pos2 |-> target_pos, result |-> final_distance,
                                  reached |-> final_distance < 35 * 35]>>
    /\ UNCHANGED <<terrainVars, zoneVars, pathVars, pc, walkVars, distVars, coordVars,
                   engine_call, resourceVars, farmVars, test_call>>

NextMove ==
    \/ CalculateDistance
    \/ WaitForMovement

SpecMove == InitMove /\ [][NextMove]_vars

(***************************************************************************)
(* Specification SpecEngine: a PathfindingEngine on one terrain snapshot.   *)
(* tg is current_terrain, set by create_aqueduct_path; engine_call is the   *)
(* last call made.                                                         *)
(***************************************************************************)
\* a detour by straight steps beats the zigzag of diagonal steps
EngineRowsZigzag == << <<50, 51, 51, 51, 51>>,
                       <<51, 50, 51, 50, 51>>,
                       <<51, 51, 51, 50, 51>>,
                       <<50, 51, 51, 50, 51>> >>

EngineRowsOpen == [r \in 1..4 |-> [c \in 1..5 |-> 51]]

\* a blocked column cuts the grid in two
EngineRowsSplit == [r \in 1..4 |-> [c \in 1..5 |-> IF c = 3 THEN 50 ELSE 51]]

EngineRowsRagged == << <<51, 51, 51, 51, 51>>, <<51, 51>>, <<>>, <<51, 51, 51, 51, 51>> >>

\* a corridor of one row: one waypoint, 20 to the right of a start at x <= 1
EngineRowsCorridor == << [c \in 1..22 |-> 51] >>

\* the waypoint of a start at x = 0, the cell (20, 0), is blocked
EngineRowsBlockedWaypoint == << [c \in 1..22 |-> IF c = 21 THEN 0 ELSE 51] >>

\* the corridor is cut between the start and its waypoint
EngineRowsCut == << [c \in 1..22 |-> IF c = 11 THEN 0 ELSE 51] >>

EngineTerrainRows ==
    {EngineRowsZigzag, EngineRowsOpen, EngineRowsSplit, EngineRowsRagged,
     EngineRowsCorridor, EngineRowsBlockedWaypoint, EngineRowsCut}

EngineTerrainStrings ==
    {Serialise(rows, <<" ">>, <<"\n">>, <<>>, <<>>) : rows \in EngineTerrainRows}
        \cup { <<>>, <<" ">>, <<"\n", " ">>, <<"5", "1", " ", "x">> }

\* start_pos dicts with integer X and Y
EngineStartPositions ==
    {[X |-> 0, Y |-> 0], [X |-> 1, Y |-> 1], [X |-> 0, Y |-> 1], [X |-> 1, Y |-> 0],
     [X |-> -5, Y |-> 0], [X |-> 25, Y |-> 1]}

EnginePositions ==
    {Position(0, 1), Position(4, 3), Position(0, 0), Position(2, 2), Position(4, 0),
     Position(1, 1), Position(-1, 0), Position(20, 0)}

InitEngine ==
    /\ terrain_string \in EngineTerrainStrings
    /\ terrain_rows = <<>>
    /\ tg = Unbuilt
    /\ ta = Unbuilt
    /\ ZoneIdle
    /\ PathIdle
    /\ QueryIdle
    /\ pc = "engine"

\* create_aqueduct_path(start_pos, terrain_string)
CreateAqueductPath ==
    /\ pc = "engine"
    /\ \E pos \in EngineStartPositions :
          LET made == create_aqueduct_path(terrain_string, pos)
          IN  /\ tg' = made.terrain
              /\ engine_call' = <<[op |-> "create_aqueduct_path", start_pos |-> pos,
                                   result |-> made.path]>>
    /\ UNCHANGED <<terrain_string, terrain_rows, ta, zoneVars, pathVars, pc,
                   walkVars, distVars, coordVars, distance_call, resourceVars, farmVars, test_call>>

\* find_path(start, end)
FindPath ==
    /\ pc = "engine"
    /\ \E start \in EnginePositions, end \in EnginePositions :
          engine_call' = <<[op |-> "find_path", start |-> start, end |-> end,
                            result |-> find_path(tg, start, end)]>>
    /\ UNCHANGED <<terrainVars, zoneVars, pathVars, pc,
                   walkVars, distVars, coordVars, distance_call, resourceVars, farmVars, test_call>>

NextEngine ==
    \/ CreateAqueductPath
    \/ FindPath

SpecEngine == InitEngine /\ [][NextEngine]_vars

(***************************************************************************)
(* Specification SpecResource: a ResourceManager fed with life data.       *)
(***************************************************************************)
ResourceConfigs == {ResourceConfig, LowLifeConfig}

ResourceReadings ==
    {[Current |-> 0, Total |-> 100], [Current |-> 12, Total |-> 100],
     [Current |-> 19, Total |-> 100], [Current |-> 24, Total |-> 100],
     [Current |-> 25, Total |-> 100], [Current |-> 2, Total |-> 3],
     [Current |-> 0, Total |-> 0], EmptyDict}

\* the answers of _get_life_data(): the placeholder's {}, and dicts of the API
LifeData ==
    {EmptyDict}
        \cup {[Health |-> h, EnergyShield |-> e] : h \in ResourceReadings, e \in ResourceReadings}
        \cup {[Health |-> h] : h \in ResourceReadings}

\* the reading is below a retreat threshold of the configuration
LowReading(life_data, config) ==
    /\ DOMAIN life_data # {}
    /\ ResourceStatus_should_retreat(update_resource_status(ResourceStatus, life_data), config)

InitResource ==
    /\ TerrainIdle
    /\ ZoneIdle
    /\ PathIdle
    /\ WalkIdle
    /\ DistIdle
    /\ CoordNew
    /\ distance_call = <<>>
    /\ engine_call = <<>>
    /\ rm \in {ResourceManager(config) : config \in ResourceConfigs}
    /\ rm_history = [received |-> FALSE, low |-> FALSE]
    /\ retreat_call = <<>>
    /\ farm = FarmIdle
    /\ farm_log = <<>>
    /\ test_call = <<>>
    /\ pc = "resource"

\* check_and_use_flasks()
CheckAndUseFlasks ==
    /\ pc = "resource"
    /\ \E life_data \in LifeData :
          /\ rm' = check_and_use_flasks(rm, life_data)
          /\ rm_history' = [received |-> rm_history.received \/ DOMAIN life_data # {},
                            low |-> rm_history.low \/ LowReading(life_data, rm.config)]
    /\ retreat_call' = <<>>
    /\ UNCHANGED <<terrainVars, zoneVars, pathVars, pc, walkVars, distVars, coordVars,
                   distance_call, engine_call, farmVars, test_call>>

\* should_retreat()
ShouldRetreat ==
    /\ pc = "resource"
    /\ retreat_call' = <<ResourceManager_should_retreat(rm)>>
    /\ UNCHANGED <<terrainVars, zoneVars, pathVars, pc, walkVars, distVars, coordVars,
                   distance_call, engine_call, rm, rm_history, farmVars, test_call>>

\* clear_retreat_request(), reset_run_stats(), reset_all_stats()
ClearRetreatRequest ==
    /\ pc = "resource"
    /\ rm' = clear_retreat_request(rm)
    /\ rm_history' = [rm_history EXCEPT !.low = FALSE]
    /\ retreat_call' = <<>>
    /\ UNCHANGED <<terrainVars, zoneVars, pathVars, pc, walkVars, distVars, coordVars,
                   distance_call, engine_call, farmVars, test_call>>

NextResource ==
    \/ CheckAndUseFlasks
    \/ ShouldRetreat
    \/ ClearRetreatRequest

SpecResource == InitResource /\ [][NextResource]_vars

(***************************************************************************)
(* Specification SpecFarm: one run of farm_aqueduct.                       *)
(***************************************************************************)
MaxWaypoints == 3

FarmWaypoints == {<<10, 0>>, <<20, 0>>}

RECURSIVE PathsOfLength(_)
PathsOfLength(n) ==
    IF n = 0 THEN {<<>>}
    ELSE {Append(waypoints, w) : waypoints \in PathsOfLength(n - 1), w \in FarmWaypoints}

\* the paths create_intelligent_path may answer
FarmPaths == UNION {PathsOfLength(n) : n \in 0..MaxWaypoints}

\* the life data of a run: none, a healthy reading, a reading of low health
FarmLifeData ==
    {EmptyDict,
     [Health |-> [Current |-> 100, Total |-> 100], EnergyShield |-> [Current |-> 50, Total |-> 100]],
     [Health |-> [Current |-> 24, Total |-> 100], EnergyShield |-> [Current |-> 50, Total |-> 100]]}

InitFarm ==
    /\ TerrainIdle
    /\ ZoneIdle
    /\ PathIdle
    /\ WalkIdle
    /\ DistIdle
    /\ CoordNew
    /\ AutomationIdle
    /\ pc = "farm"

\* farm_aqueduct up to the loop: the path is created
FarmAqueduct ==
    /\ pc = "farm"
    /\ farm.phase = "idle"
    /\ \E waypoints \in FarmPaths :
          farm' = [farm EXCEPT !.path = waypoints,
                               !.phase = IF waypoints = <<>> THEN "done" ELSE "loop"]
    /\ UNCHANGED <<terrainVars, zoneVars, pathVars, pc, walkVars, distVars, coordVars,
                   distance_call, engine_call, resourceVars, farm_log, test_call>>

\* one pass of the loop over the path
FarmWaypoint ==
    /\ pc = "farm"
    /\ farm.phase = "loop"
    /\ \E moved, enemies, full \in BOOLEAN, killed, loot_collected \in 0..1,
          life_data \in FarmLifeData :
          LET after == farm_waypoint(farm, farm_log, rm, moved, enemies, killed,
                                     loot_collected, life_data, full)
          IN  /\ farm' = after.farm
              /\ farm_log' = after.log
              /\ rm' = after.rm
    /\ UNCHANGED <<terrainVars, zoneVars, pathVars, pc, walkVars, distVars, coordVars,
                   distance_call, engine_call, rm_history, retreat_call, test_call>>

NextFarm ==
    \/ FarmAqueduct
    \/ FarmWaypoint

SpecFarm == InitFarm /\ [][NextFarm]_vars

\* player positions (Optional dicts): the grid points, a dict without keys,
\* and None
PlayerPositions ==
    {<<[X |-> g[1], Y |-> g[2]]>> : g \in GridPoints} \cup {<<EmptyDict>>, <<>>}

\* get_movement_position(world_x, world_y)
GetMovementPosition ==
    /\ \E g \in GridPoints :
          position_call' = <<[op |-> "get_movement_position", arg |-> g,
                              result |-> get_movement_position(game_window, g[1], g[2])]>>
    /\ UNCHANGED <<terrainVars, zoneVars, pathVars, pc, walkVars, distVars,
                   automationVars, calibrationVars, conversions, valid_call, click_call>>

\* get_safe_click_near_player(player_pos)
GetSafeClickNearPlayer ==
    /\ \E player \in PlayerPositions :
          position_call' = <<[op |-> "get_safe_click_near_player", arg |-> player,
                              result |-> <<get_safe_click_near_player(game_window, player)>>]>>
    /\ UNCHANGED <<terrainVars, zoneVars, pathVars, pc, walkVars, distVars,
                   automationVars, calibrationVars, conversions, valid_call, click_call>>

NextSafe ==
    \/ SetGameWindow
    \/ SetCoordinateFixes
    \/ GetEntityClickPosition
    \/ DeployGetEntityClickPosition
    \/ GetMovementPosition
    \/ GetSafeClickNearPlayer

\* the three click-position functions under every calibration
SpecSafe == InitCoord /\ [][NextSafe]_vars

(***************************************************************************)
(* Specification SpecZone: exit detection and exit selection.              *)
(***************************************************************************)
EntityLists(kinds, n) == UNION {[1..k -> kinds] : k \in 0..n}

InitZone ==
    /\ TerrainIdle
    /\ entities \in EntityLists(ZoneEntityKinds, MaxZoneEntities)
    /\ player_pos \in ZonePlayerPositions
    /\ exit_candidates = <<>>
    /\ exits = <<>>
    /\ optimal = <<>>
    /\ PathIdle
    /\ QueryIdle
    /\ pc = "zone"

\* ZoneAnalyzer.find_zone_exits(entities)
FindZoneExits ==
    /\ pc = "zone"
    /\ exit_candidates' = CollectExits(entities)
    /\ exits' = find_zone_exits(entities)
    /\ pc' = "exits"
    /\ UNCHANGED <<terrainVars, entities, player_pos, optimal, pathVars, queryVars>>

\* ZoneAnalyzer.find_optimal_exit(player_pos, exits)
FindOptimalExit ==
    /\ pc = "exits"
    /\ optimal' = find_optimal_exit(player_pos, exits)
    /\ pc' = "optimal"
    /\ UNCHANGED <<terrainVars, entities, player_pos, exit_candidates, exits, pathVars, queryVars>>

NextZone == FindZoneExits \/ FindOptimalExit

SpecZone == InitZone /\ [][NextZone]_vars

(***************************************************************************)
(* Specification Spec: IntelligentPathfinder.create_intelligent_path.      *)
(***************************************************************************)
Rows3x3 == << <<50, 50, 50>>, <<50, 50, 50>>, <<50, 50, 50>> >>

RowsOpen == << <<50, 51, 50, 50, 50, 50, 50, 50>>,
               <<50, 49, 49, 52, 50, 50, 50, 50>> >>

RowsWalled == << <<50, 50, 49, 50, 50, 50, 50, 50>>,
                 <<50, 50, 49, 50, 50, 50, 50, 50>> >>

RowsDetour == << <<50, 49, 50, 50, 50, 50, 50, 50>>,
                 <<50, 49, 50, 49, 49, 49, 49, 50>>,
                 <<50, 50, 50, 49, 50, 50, 50, 50>> >>

RowsRagged == << <<50, 50, 50, 50, 50, 50, 50, 50>>,
                 <<50, 50>> >>

\* the cell of the start (0, 0) is blocked
RowsBlockedStart == << <<49, 50, 50, 50, 50, 50, 50, 50>>,
                       <<50, 50, 50, 50, 49, 50, 50, 50>> >>

PathTerrainRows ==
    {Rows3x3, RowsOpen, RowsWalled, RowsDetour, RowsRagged, RowsBlockedStart}

PathTerrainStrings ==
    {Serialise(rows, <<" ">>, <<"\n">>, <<>>, <<>>) : rows \in PathTerrainRows}
        \cup { <<>>, <<"5", "0", " ", "x">> }

PathEntityKinds ==
    { [Path |-> <<"M", "e", "t", "a", "d", "a", "t", "a", "/", "D", "o", "o", "r">>, EntityType |-> 0, GridPosition |-> [X |-> 2, Y |-> 2]],
      [Path |-> <<"M", "e", "t", "a", "d", "a", "t", "a", "/", "T", "r", "a", "n", "s", "i", "t", "i", "o", "n", "/", "W", "a", "y", "p", "o", "i", "n", "t", "1">>, EntityType |-> 0, GridPosition |-> [X |-> 100, Y |-> 50]],
      [Path |-> <<"T", "e", "l", "e", "p", "o", "r", "t">>, EntityType |-> 0, GridPosition |-> [X |-> 7, Y |-> 1]],
      [Path |-> <<"M", "o", "n", "s", "t", "e", "r">>, EntityType |-> 0, GridPosition |-> [X |-> 4, Y |-> 0]],
      [Path |-> <<"M", "o", "n", "s", "t", "e", "r">>, EntityType |-> 2, GridPosition |-> [X |-> 7, Y |-> 0]],
      [Path |-> <<"S", "t", "a", "i", "r", "c", "a", "s", "e">>, EntityType |-> 0, GridPosition |-> [X |-> 7, Y |-> 2]],
      [Path |-> <<"P", "o", "r", "t", "a", "l">>, EntityType |-> 0] }

StartPositions == {[X |-> 0, Y |-> 0], [X |-> 10, Y |-> 10], [X |-> -3, Y |-> 0]}

Init ==
    /\ terrain_string \in PathTerrainStrings
    /\ terrain_rows = <<>>
    /\ tg = Unbuilt
    /\ ta = Unbuilt
    /\ entities \in EntityLists(PathEntityKinds, MaxEntities)
    /\ start_pos \in StartPositions
    /\ player_pos = Position(start_pos.X, start_pos.Y)
    /\ exit_candidates = <<>>
    /\ exits = <<>>
    /\ optimal = <<>>
    /\ open_set = <<>>
    /\ closed_set = {}
    /\ nodes_dict = EmptyDict
    /\ astar_path = <<>>
    /\ path = <<>>
    /\ method = "none"
    /\ QueryIdle
    /\ pc = "call"

\* create_intelligent_path up to the point where the construction is chosen:
\* the exploration pattern and the no-terrain direct path return at once,
\* otherwise _find_path_astar is entered with the start node pushed.
\* (get_debug_overlay() only receives reports; it decides nothing.)
CreateIntelligentPath ==
    /\ pc = "call"
    /\ LET analyzer == TerrainAnalyzer(terrain_string)
           start == Position(start_pos.X, start_pos.Y)
           found == IdentifiedExits(entities)
           target_exit == find_optimal_exit(start, found)
       IN  /\ ta' = analyzer
           /\ exit_candidates' = CollectExits(entities)
           /\ exits' = found
           /\ optimal' = target_exit
           /\ IF found = <<>> \/ target_exit = <<>>
              THEN /\ path' = create_exploration_path(start_pos)
                   /\ method' = "exploration"
                   /\ pc' = "done"
                   /\ UNCHANGED searchVars
              ELSE IF analyzer.grid # <<>>
                   THEN /\ nodes_dict' = (start :> PathNode(start, 0,
                                             distance_to(start, target_exit[1]), <<>>))
                        /\ open_set' = HeapPush(nodes_dict', <<>>, start)
                        /\ closed_set' = {}
                        /\ pc' = "astar"
                        /\ UNCHANGED <<astar_path, path, method>>
                   ELSE /\ path' = create_direct_path(start, target_exit[1])
                        /\ method' = "direct"
                        /\ pc' = "done"
                        /\ UNCHANGED searchVars
    /\ UNCHANGED <<terrain_string, terrain_rows, tg, entities, player_pos, start_pos, queryVars>>

\* one pass of "while open_set": pop; on a node nearer than 5 to the goal
\* return the reconstructed path, which create_intelligent_path converts and
\* returns; otherwise close the node and expand its neighbours
AStarIteration ==
    /\ pc = "astar"
    /\ open_set # <<>>
    /\ LET popped == HeapPop(nodes_dict, open_set)
           current_pos == popped.item
           goal == optimal[1]
       IN  IF DistanceLess(current_pos, goal, 5)
           THEN /\ astar_path' = <<reconstruct_path(nodes_dict, current_pos)>>
                /\ path' = [i \in 1..Len(astar_path'[1]) |->
                              [x |-> astar_path'[1][i].x, y |-> astar_path'[1][i].y]]
                /\ method' = "astar"
                /\ open_set' = popped.heap
                /\ pc' = "done"
                /\ UNCHANGED <<closed_set, nodes_dict>>
           ELSE LET closed == closed_set \cup {current_pos}
                    expanded == ExpandNeighbors(
                                    TerrainAnalyzer_get_neighbors(ta, current_pos),
                                    current_pos, goal, closed, nodes_dict, popped.heap)
                IN  /\ closed_set' = closed
                    /\ nodes_dict' = expanded.nodes
                    /\ open_set' = expanded.heap
                    /\ UNCHANGED <<astar_path, path, method, pc>>
    /\ UNCHANGED <<terrainVars, zoneVars, start_pos, queryVars>>

\* the open set ran empty: _find_path_astar returns None and
\* create_intelligent_path returns the direct path
AStarExhausted ==
    /\ pc = "astar"
    /\ open_set = <<>>
    /\ astar_path' = <<>>
    /\ path' = create_direct_path(Position(start_pos.X, start_pos.Y), optimal[1])
    /\ method' = "direct"
    /\ pc' = "done"
    /\ UNCHANGED <<terrainVars, zoneVars, start_pos, open_set, closed_set, nodes_dict, queryVars>>

Next == CreateIntelligentPath \/ AStarIteration \/ AStarExhausted

Spec == Init /\ [][Next]_vars

\* both A* searches: IntelligentPathfinder._find_path_astar under
\* create_intelligent_path, and PathfindingEngine.find_path
SpecPaths == (Init \/ InitEngine) /\ [][Next \/ NextEngine]_vars

(***************************************************************************)
(* Properties of the terrain parsers (SpecTerrain).                        *)
(***************************************************************************)
GridMatchesRows(g) ==
    /\ g.width = Len(terrain_rows[1])
    /\ g.height = Len(terrain_rows)
    /\ \A y \in 0..(Len(terrain_rows) - 1) :
         \A x \in 0..(Len(terrain_rows[1]) - 1) :
            /\ y + 1 \in DOMAIN g.grid
            /\ x + 1 \in DOMAIN g.grid[y + 1]
            /\ g.grid[y + 1][x + 1] = terrain_rows[y + 1][x + 1]

\* C10: for a terrain string made of R >= 1 rows of C >= 1 equal-length
\* whitespace-separated integers, TerrainGrid and TerrainAnalyzer both report
\* width = C and height = R, and cell (x, y) holds the x-th integer of the
\* y-th row.
TerrainDimensionsRowMajor ==
    terrain_rows # <<>> =>
        /\ tg.built => GridMatchesRows(tg)
        /\ ta.built => GridMatchesRows(ta)

TerrainDimensionsWitness ==
    /\ tg.built /\ ta.built
    /\ Len(terrain_rows) = 2 /\ Len(terrain_rows[1]) = 2
    /\ terrain_rows[1] # terrain_rows[2]
    /\ terrain_rows[1][1] # terrain_rows[1][2]
    /\ Head(terrain_string) \in Whitespace
    /\ tg.width = 2 /\ ta.height = 2

\* the text is empty, whitespace-only, or has a token that is not an integer
DegenerateText(s) ==
    \/ \A i \in 1..Len(s) : s[i] \in Whitespace
    \/ \E i \in 1..Len(SplitWs(s)) : ~IsIntToken(SplitWs(s)[i])

EmptyGrid(g) == g.grid = <<>> /\ g.width = 0 /\ g.height = 0

\* C12: for terrain text that is empty, whitespace-only, or contains any
\* non-integer token, both TerrainGrid and TerrainAnalyzer are constructed
\* without raising and report an empty grid with width = 0 and height = 0.
DegenerateTextGivesEmptyGrid ==
    DegenerateText(terrain_string) =>
        /\ tg.built => EmptyGrid(tg)
        /\ ta.built => EmptyGrid(ta)

(***************************************************************************)
(* Properties of the walkability queries (SpecWalk).                       *)
(***************************************************************************)
OutOfRange(g, c) == c.x < 0 \/ c.y < 0 \/ c.x >= g.width \/ c.y >= g.height

\* C11: on every parsed grid (empty, rectangular or ragged) is_walkable of
\* either class returns a boolean, never an exception, for every integer
\* (x, y), and it returns false whenever x < 0, y < 0, x >= width or
\* y >= height.
IsWalkableTotalAndBounded ==
    /\ tg_cell # <<>> =>
          /\ tg_walkable \in {<<TRUE>>, <<FALSE>>}
          /\ OutOfRange(tg, tg_cell[1]) => tg_walkable = <<FALSE>>
    /\ ta_cell # <<>> =>
          /\ ta_walkable \in {<<TRUE>>, <<FALSE>>}
          /\ OutOfRange(ta, ta_cell[1]) => ta_walkable = <<FALSE>>

\* a ragged grid asked below zero by one class and at a missing cell by the other
IsWalkableWitness ==
    /\ terrain_rows = <<<<51, 50, 52>>, <<51>>>>
    /\ tg_cell = <<Position(-1, 0)>> /\ tg_walkable = <<FALSE>>
    /\ ta_cell = <<Position(1, 1)>> /\ ta_walkable = <<FALSE>>

\* the cell (x, y) is inside the grid and the snapshot has a code for it
HasCode(c) ==
    /\ terrain_rows # <<>>
    /\ 0 <= c.y /\ c.y < Len(terrain_rows)
    /\ 0 <= c.x /\ c.x < Len(terrain_rows[1]) /\ c.x < Len(terrain_rows[c.y + 1])

CodeAt(c) == terrain_rows[c.y + 1][c.x + 1]

\* C13: for the same terrain string and any in-bounds cell,
\* TerrainAnalyzer.is_walkable is true exactly when the code is >= 50 and
\* TerrainGrid.is_walkable exactly when the code is 51: the two agree on
\* every cell whose code is 49 or 51 and differ on every cell whose code is
\* 50 or above 51.
WalkabilityThresholds ==
    /\ (tg_cell # <<>> /\ HasCode(tg_cell[1])) =>
            tg_walkable = <<CodeAt(tg_cell[1]) = 51>>
    /\ (ta_cell # <<>> /\ HasCode(ta_cell[1])) =>
            ta_walkable = <<CodeAt(ta_cell[1]) >= 50>>
    /\ (tg_cell # <<>> /\ ta_cell = tg_cell /\ HasCode(tg_cell[1])) =>
            /\ CodeAt(tg_cell[1]) \in {49, 51} => tg_walkable = ta_walkable
            /\ (CodeAt(tg_cell[1]) = 50 \/ CodeAt(tg_cell[1]) > 51) =>
                    tg_walkable # ta_walkable

\* both classes asked about the cell of code 52
WalkabilityThresholdsWitness ==
    /\ terrain_rows = <<<<49, 50>>, <<51, 52>>>>
    /\ tg_cell = <<Position(1, 1)>> /\ tg_walkable = <<FALSE>>
    /\ ta_cell = <<Position(1, 1)>> /\ ta_walkable = <<TRUE>>

(***************************************************************************)
(* Properties of the Position distances (SpecDist).                        *)
(***************************************************************************)
\* C14: for any positions p, q each distance method gives the same result
\* in both directions, p.distance_to(q) = q.distance_to(p) and
\* p.manhattan_distance_to(q) = q.manhattan_distance_to(p), and gives 0 from
\* a position to itself.
DistancesSymmetricZeroOnSelf ==
    \A i, j \in 1..Len(measurements) :
        LET a == measurements[i]
            b == measurements[j]
        IN  /\ a.self = a.other => a.result = 0
            /\ (a.cls = b.cls /\ a.meth = b.meth /\ a.self = b.other /\ a.other = b.self)
                    => a.result = b.result

\* the Manhattan distance taken both ways between (3, -4) and (-1, 7)
DistancesWitness ==
    /\ Len(measurements) = 2
    /\ measurements[1].meth = "manhattan_distance_to"
    /\ measurements[2].meth = "manhattan_distance_to"
    /\ measurements[1].cls = measurements[2].cls
    /\ measurements[1].self = Position(3, -4) /\ measurements[1].other = Position(-1, 7)
    /\ measurements[2].self = Position(-1, 7) /\ measurements[2].other = Position(3, -4)
    /\ measurements[1].result = 15 /\ measurements[2].result = 15

(***************************************************************************)
(* Properties of the grid-to-screen conversion (SpecCoord).                *)
(***************************************************************************)
\* C15: with swap_xy false the Deploy build's convert_grid_to_screen is
\* monotonic along each axis, with and without a game window: with invert_x
\* false a larger grid x at the same grid y never gives a smaller screen x;
\* with invert_y false a larger grid y at the same grid x never gives a
\* smaller screen y; with invert_y true it never gives a larger screen y.
ConvertMonotonic ==
    ~swap_xy =>
        \A i, j \in 1..Len(conversions) :
            LET a == conversions[i]
                b == conversions[j]
            IN  (a.build = "deploy" /\ b.build = "deploy") =>
                  /\ (~invert_x /\ a.grid_y = b.grid_y /\ a.grid_x <= b.grid_x)
                        => a.result[1] <= b.result[1]
                  /\ (~invert_y /\ a.grid_x = b.grid_x /\ a.grid_y <= b.grid_y)
                        => a.result[2] <= b.result[2]
                  /\ (invert_y /\ a.grid_x = b.grid_x /\ a.grid_y <= b.grid_y)
                        => a.result[2] >= b.result[2]

\* in an 800 x 600 window with invert_y set, one step up in grid y gives a
\* smaller screen y
ConvertMonotonicWitness ==
    /\ game_window = <<[Width |-> 800, Height |-> 600]>>
    /\ invert_y /\ ~swap_xy
    /\ Len(conversions) = 2
    /\ conversions[1].build = "deploy" /\ conversions[2].build = "deploy"
    /\ conversions[1].grid_x = conversions[2].grid_x
    /\ conversions[1].grid_y < conversions[2].grid_y
    /\ conversions[1].result[2] > conversions[2].result[2]

\* a Deploy conversion of grid (600, 300) with no window and the flags of
\* __init__
IsDefaultConversionOf600_300(c) ==
    /\ c.build = "deploy"
    /\ game_window = <<>>
    /\ ~invert_x /\ invert_y /\ ~swap_xy
    /\ c.grid_x = 600 /\ c.grid_y = 300

WithinDefaultClamp(pt) ==
    100 <= pt[1] /\ pt[1] <= 1820 /\ 100 <= pt[2] /\ pt[2] <= 980

\* C16 as claimed: convert_grid_to_screen(600, 300) with no window and the
\* default flags (invert_y true) gives a screen y off the centre line
\* y = 540, on the side "below" names (smaller or larger y), and a point
\* within [100, 1820] x [100, 980].
Convert600_300OffCentreLine ==
    \A i \in 1..Len(conversions) :
        IsDefaultConversionOf600_300(conversions[i]) =>
            /\ conversions[i].result[2] # 540
            /\ WithinDefaultClamp(conversions[i].result)

\* C16 as amended: convert_grid_to_screen(600, 300) with no window and the
\* default flags gives (1110, 540): the screen y is the centre y itself,
\* since grid y 300 is the reference row, and the point is within
\* [100, 1820] x [100, 980].
Convert600_300OnCentreLine ==
    \A i \in 1..Len(conversions) :
        IsDefaultConversionOf600_300(conversions[i]) =>
            /\ conversions[i].result = <<1110, 540>>
            /\ WithinDefaultClamp(conversions[i].result)

Convert600_300Witness ==
    /\ Len(conversions) = 1
    /\ IsDefaultConversionOf600_300(conversions[1])
    /\ conversions[1].result[1] = 960 + 150

\* the extent of the screen along an axis (1 = x, 2 = y): the window's own
\* width and height, 1920 x 1080 when no window is set
ScreenExtent(axis) ==
    IF NoWindow(game_window) THEN <<1920, 1080>>[axis]
    ELSE <<WindowWidth(game_window), WindowHeight(game_window)>>[axis]

\* the safety margin the claim names: 100 with no window, 50 with one
ClaimedMargin == IF NoWindow(game_window) THEN 100 ELSE 50

WithinMargin(c, axis) ==
    /\ ClaimedMargin <= c.result[axis]
    /\ c.result[axis] <= ScreenExtent(axis) - ClaimedMargin

\* C17 as claimed: for every grid coordinate, every combination of the
\* flags and every window size the result of convert_grid_to_screen lies
\* within margin <= screen x <= width - margin and margin <= screen y <=
\* height - margin, with margin 100 and 1920 x 1080 when no window is set
\* and margin 50 and the window's own width and height when one is set.
ConvertWithinMargins ==
    \A i \in 1..Len(conversions) :
        WithinMargin(conversions[i], 1) /\ WithinMargin(conversions[i], 2)

\* the least window extent whose clamp interval is not empty and lies
\* inside the claimed one: 2 * 50 in the Deploy build, 100 + 50 in the
\* src build, whose margin is 100
RoomyExtent(build) == IF build = "deploy" THEN 100 ELSE 150

\* C17 as amended: the same bounds hold along every axis on which the
\* window is at least 100 pixels (Deploy build) or 150 pixels (src build)
\* long, and along both axes when no window is set.
ConvertWithinMarginsOfRoomyWindow ==
    \A i \in 1..Len(conversions) : \A axis \in {1, 2} :
        (NoWindow(game_window) \/ ScreenExtent(axis) >= RoomyExtent(conversions[i].build))
            => WithinMargin(conversions[i], axis)

\* a far grid x clamped to width - 50 in an 800 x 600 window
ConvertWithinMarginsWitness ==
    /\ game_window = <<[Width |-> 800, Height |-> 600]>>
    /\ Len(conversions) = 1
    /\ conversions[1].build = "deploy"
    /\ conversions[1].grid_x = 2000
    /\ conversions[1].result[1] = 750

\* the point the claim describes: the window centre plus 1.5 times the
\* offset from (500, 300), the offset inverted and swapped as the flags of
\* the Deploy build say; in halves before int()
ReferencePoint(c) ==
    LET raw == <<(c.grid_x - 500) * 3, (c.grid_y - 300) * 3>>
        offset == IF c.build = "deploy"
                  THEN ApplyFixes(invert_x, invert_y, swap_xy, raw[1], raw[2])
                  ELSE raw
        centre == <<ScreenExtent(1) \div 2, ScreenExtent(2) \div 2>>
    IN  <<TruncDiv(2 * centre[1] + offset[1], 2), TruncDiv(2 * centre[2] + offset[2], 2)>>

\* the margin the build clamps with
ClampMargin(build) ==
    IF build = "deploy" /\ ~NoWindow(game_window) THEN 50 ELSE 100

Unclamped(c, axis) ==
    /\ ClampMargin(c.build) <= ReferencePoint(c)[axis]
    /\ ReferencePoint(c)[axis] <= ScreenExtent(axis) - ClampMargin(c.build)

\* C18: whether or not a game window is set, convert_grid_to_screen takes
\* the offset of the grid coordinate from the reference (500, 300), scales
\* it by 1.5 and adds it to the window's centre: wherever that point needs
\* no clamping it is the result, so (500, 300) gives the window centre and
\* a grid offset d moves the result by 1.5 * d pixels.
ConvertOffsetsFromReference ==
    \A i \in 1..Len(conversions) : \A axis \in {1, 2} :
        Unclamped(conversions[i], axis)
            => conversions[i].result[axis] = ReferencePoint(conversions[i])[axis]

(***************************************************************************)
(* Properties of the screen-point checks and click positions (SpecClick).  *)
(***************************************************************************)
\* C19: is_valid_screen_position rejects every point closer than 10 pixels
\* to a screen edge and every point beyond the window bounds (beyond
\* 1920 x 1080 when no window is set): it returns true only for points at
\* least 10 pixels inside all four edges, with and without a window.
ValidOnlyTenInsideEdges ==
    valid_call # <<>> =>
        (valid_call[1].result =>
            /\ 10 <= valid_call[1].x /\ valid_call[1].x <= ScreenExtent(1) - 10
            /\ 10 <= valid_call[1].y /\ valid_call[1].y <= ScreenExtent(2) - 10)

\* the entity with its location_on_screen field replaced by that of l
WithScreenPosition(entity, l) ==
    Merge(l, [k \in DOMAIN entity \ {"location_on_screen"} |-> entity[k]])

\* what the build of the recorded call returns for another entity
ClickPositionOf(build, entity) ==
    IF build = "deploy"
    THEN Deploy_get_entity_click_position(game_window, grid_to_screen_scale,
                                          invert_x, invert_y, swap_xy, entity)
    ELSE get_entity_click_position(game_window, entity)

\* C20: the result of get_entity_click_position does not depend on the
\* entity's location_on_screen field: an entity with the same grid position
\* (or equally without one) and any other location_on_screen gets the same
\* coordinate under the same calibration; an entity without a grid position
\* gets the window centre.
ClickIgnoresScreenPosition ==
    click_call # <<>> =>
        LET c == click_call[1]
        IN  /\ \A l \in ScreenPositionFields :
                  ClickPositionOf(c.build, WithScreenPosition(c.entity, l)) = c.result
            /\ ("GridPosition" \notin DOMAIN c.entity \/ DOMAIN c.entity.GridPosition = {})
                  => c.result = <<ScreenExtent(1) \div 2, ScreenExtent(2) \div 2>>

\* the first entity of quick_coordinate_test.py, clicked with no window set
ClickIgnoresScreenPositionWitness ==
    /\ game_window = <<>>
    /\ click_call # <<>>
    /\ click_call[1].build = "main"
    /\ click_call[1].entity = [GridPosition |-> [X |-> 504, Y |-> 271, Z |-> 0],
                               location_on_screen |-> [X |-> 5075, Y |-> -9539]]
    /\ click_call[1].result = <<966, 496>>

\* the recorded results of the click-position functions, each <<>> for None
\* or <<point>>
ClickResults ==
    (IF click_call = <<>> THEN {} ELSE {<<click_call[1].result>>})
        \cup (IF position_call = <<>> THEN {} ELSE {position_call[1].result})

ValidPoint(pt) == is_valid_screen_position(game_window, pt[1], pt[2])

\* C21 as claimed: for every window configuration, very small and zero-sized
\* windows included, and every input, get_safe_click_near_player,
\* get_movement_position and get_entity_click_position each return an
\* (x, y) coordinate that satisfies is_valid_screen_position.
ClickPositionsAlwaysValid ==
    \A r \in ClickResults : r # <<>> /\ ValidPoint(r[1])

\* a window with room for a valid point: none set, or at least 20 pixels
\* wide and high, so that the centre is 10 pixels inside all four edges
WindowHasValidCentre ==
    NoWindow(game_window) \/ (ScreenExtent(1) >= 20 /\ ScreenExtent(2) >= 20)

\* C21 as amended: get_movement_position returns the converted point or,
\* when that is invalid, None, never an invalid coordinate; with no window
\* or a window at least 20 pixels wide and high get_entity_click_position
\* and, given a position dict, get_safe_click_near_player return a
\* coordinate that satisfies is_valid_screen_position; given None for the
\* position get_safe_click_near_player returns (960, 540).
ClickPositionsValidOrNone ==
    /\ position_call # <<>> =>
          \/ /\ position_call[1].op = "get_movement_position"
             /\ position_call[1].result # <<>> => ValidPoint(position_call[1].result[1])
          \/ /\ position_call[1].op = "get_safe_click_near_player"
             /\ position_call[1].result # <<>>
             /\ position_call[1].arg = <<>> => position_call[1].result = <<<<960, 540>>>>
             /\ (position_call[1].arg # <<>> /\ WindowHasValidCentre)
                    => ValidPoint(position_call[1].result[1])
    /\ (click_call # <<>> /\ WindowHasValidCentre) => ValidPoint(click_call[1].result)

\* on a 20 x 20 window the converted point is invalid: the safe click is the
\* centre (10, 10), the movement position None
ClickPositionsWitness ==
    /\ game_window = <<[Width |-> 20, Height |-> 20]>>
    /\ click_call # <<>> /\ click_call[1].build = "main"
    /\ "GridPosition" \in DOMAIN click_call[1].entity
    /\ click_call[1].result = <<10, 10>>
    /\ position_call # <<>>
    /\ position_call[1].op = "get_safe_click_near_player"
    /\ position_call[1].arg # <<>>
    /\ position_call[1].result = <<<<10, 10>>>>

\* the coordinate a position stores on an axis, under either letter case
CoordOf(pos, upper, lower) ==
    IF upper \in DOMAIN pos THEN pos[upper] ELSE pos[lower]

\* the square of the Euclidean distance between the stored coordinates
TrueDistanceSquared(pos1, pos2) ==
    LET dx == CoordOf(pos2, "X", "x") - CoordOf(pos1, "X", "x")
        dy == CoordOf(pos2, "Y", "y") - CoordOf(pos1, "Y", "y")
    IN  dx * dx + dy * dy

\* C22: calculate_distance returns the Euclidean distance between two
\* positions whichever letter case each one's keys have, so the distance
\* wait_for_movement measures from the player position (uppercase keys) to
\* a waypoint (lowercase keys) is the true distance between them.
DistanceIgnoresKeyCase ==
    distance_call # <<>> =>
        distance_call[1].result
            = TrueDistanceSquared(distance_call[1].pos1, distance_call[1].pos2)

FarmMoves == SelectSeq(farm_log, LAMBDA e : e.event = "move")

FarmChecks ==
    {"scan_for_enemies", "collect_nearby_loot", "check_and_use_flasks",
     "is_inventory_full", "should_retreat"}

\* C27: farm_aqueduct attempts the waypoints strictly in path order, each at
\* most once; the combat scan, the loot collection and the flask check are
\* made only after a waypoint whose move succeeded, a failed move going
\* straight on to the next waypoint; and once the inventory is full or
\* retreat is indicated after a successful move, no later waypoint is
\* attempted.
FarmFollowsPathInOrder ==
    /\ Len(FarmMoves) <= Len(farm.path)
    /\ \A k \in 1..Len(FarmMoves) :
          FarmMoves[k].index = k /\ FarmMoves[k].target = farm.path[k]
    /\ \A p \in 1..Len(farm_log) :
          /\ farm_log[p].event \in FarmChecks =>
                \E q \in 1..(p - 1) :
                    /\ farm_log[q].event = "move"
                    /\ farm_log[q].ok
                    /\ farm_log[q].index = farm_log[p].index
                    /\ \A r \in (q + 1)..(p - 1) :
                          farm_log[r].event \in FarmChecks \ {farm_log[p].event}
          /\ (farm_log[p].event = "move" /\ ~farm_log[p].ok /\ p < Len(farm_log)) =>
                farm_log[p + 1].event = "move"
          /\ (farm_log[p].event \in {"is_inventory_full", "should_retreat"} /\ farm_log[p].ok) =>
                /\ p = Len(farm_log)
                /\ farm.phase = "done"

\* a run that failed a move, went on, and was stopped by a full inventory or by
\* retreat before the end of its path
FarmFollowsPathWitness ==
    /\ farm.phase = "done"
    /\ farm.i < Len(farm.path)
    /\ \E p \in 1..Len(farm_log) : farm_log[p].event = "move" /\ ~farm_log[p].ok
    /\ \E p \in 1..Len(farm_log) : farm_log[p].event = "scan_for_enemies"
    /\ farm_log[Len(farm_log)].event \in {"is_inventory_full", "should_retreat"}
    /\ farm_log[Len(farm_log)].ok

ConversionCall ==
    \/ test_call' # <<>> /\ test_call' # test_call
    \/ click_call' # <<>> /\ click_call' # click_call

\* C30: test_coordinate_conversion leaves the calibration unchanged: whatever
\* invert_x, invert_y, swap_xy and the game window were before the call,
\* they are the same after it; and convert_grid_to_screen,
\* is_valid_screen_position and get_entity_click_position never modify the
\* flags or the game window.
TestLeavesCalibrationUnchanged ==
    [][ConversionCall => UNCHANGED <<invert_x, invert_y, swap_xy, game_window>>]_vars

\* a test under flags that are none of the six combinations, with a game
\* window set, whose results differ between the combinations
TestLeavesCalibrationWitness ==
    /\ test_call # <<>>
    /\ game_window # <<>>
    /\ <<invert_x, invert_y, swap_xy>> = <<TRUE, FALSE, TRUE>>
    /\ DOMAIN test_call[1].results = {fix_combinations[k].name : k \in 1..6}
    /\ test_call[1].results["normal"] # test_call[1].results["swap_invert_y"]

(***************************************************************************)
(* Properties of the zone analysis (SpecZone).                             *)
(***************************************************************************)
CloserThan10(p, q) == Dist2(p, q) < 100

RECURSIVE Restrict(_, _, _)
Restrict(seq, K, i) ==
    IF i > Len(seq) THEN <<>>
    ELSE (IF i \in K THEN <<seq[i]>> ELSE <<>>) \o Restrict(seq, K, i + 1)

NoTwoExitsClose ==
    \A k, l \in 1..Len(exits) : k # l => ~CloserThan10(exits[k], exits[l])

TwoDoorsFiveApart ==
    (/\ Len(entities) = 2
     /\ \A i \in 1..2 : Contains(Lower(Get(entities[i], "Path", <<>>)), <<"d", "o", "o", "r">>)
     /\ \A i \in 1..2 : HasGridPosition(entities[i])
     /\ Dist2(GridPositionOf(entities[1]), GridPositionOf(entities[2])) = 25)
    => Len(exits) = 1

\* C7 as stated: no two returned exits are less than 10 units apart; of each
\* group of candidates closer than 10 units only the first one scanned is kept
\* (so the later candidate of any two close candidates is dropped); the exits
\* appear in scan order; two Door entities 5 units apart yield one exit.
ExitsMergeEveryCloseGroup ==
    pc \in {"exits", "optimal"} =>
        /\ NoTwoExitsClose
        /\ \E K \in SUBSET (1..Len(exit_candidates)) :
              /\ exits = Restrict(exit_candidates, K, 1)
              /\ \A a, b \in 1..Len(exit_candidates) :
                    (a < b /\ CloserThan10(exit_candidates[a], exit_candidates[b]))
                        => b \notin K
        /\ TwoDoorsFiveApart

\* C7 amended: no two returned exits are less than 10 units apart; a
\* candidate is kept exactly when it is at least 10 units from every candidate
\* kept before it; the exits appear in scan order; two Door entities 5 units
\* apart yield exactly one exit.
ExitsGreedyDedup ==
    pc \in {"exits", "optimal"} =>
        /\ NoTwoExitsClose
        /\ \E K \in SUBSET (1..Len(exit_candidates)) :
              /\ exits = Restrict(exit_candidates, K, 1)
              /\ \A b \in 1..Len(exit_candidates) :
                    b \in K <=>
                        \A a \in K : a < b =>
                            ~CloserThan10(exit_candidates[a], exit_candidates[b])
        /\ TwoDoorsFiveApart

\* three candidates in a chain 0, 8, 16: the middle one is dropped, the last kept
ExitsGreedyDedupWitness ==
    /\ pc = "exits"
    /\ exit_candidates = <<Position(0, 0), Position(8, 0), Position(8, 0), Position(16, 0)>>
    /\ exits = <<Position(0, 0), Position(16, 0)>>

ClaimKeywords == {
    <<"d", "o", "o", "r">>,
    <<"e", "x", "i", "t">>,
    <<"w", "a", "y", "p", "o", "i", "n", "t">>,
    <<"p", "o", "r", "t", "a", "l">>,
    <<"t", "r", "a", "n", "s", "i", "t", "i", "o", "n">>,
    <<"a", "r", "e", "a", "t", "r", "a", "n", "s", "i", "t", "i", "o", "n">>,
    <<"z", "o", "n", "e", "e", "x", "i", "t">>,
    <<"s", "t", "a", "i", "r", "c", "a", "s", "e">>,
    <<"l", "a", "d", "d", "e", "r">> }

SameLetter(c, k) == c = k \/ \E i \in 1..26 : UpperCase[i] = c /\ LowerCase[i] = k

MentionsKeyword(str) ==
    \E kw \in ClaimKeywords : \E off \in 0..(Len(str) - Len(kw)) :
        \A j \in 1..Len(kw) : SameLetter(str[off + j], kw[j])

Qualifies(entity) ==
    \/ "Path" \in DOMAIN entity /\ MentionsKeyword(entity.Path)
    \/ "EntityType" \in DOMAIN entity /\ entity.EntityType \in {1, 2, 3}

WithGrid(entity) ==
    "GridPosition" \in DOMAIN entity /\ DOMAIN entity.GridPosition # {}

ExitSources == {i \in 1..Len(entities) : WithGrid(entities[i]) /\ Qualifies(entities[i])}

\* C8: an entity with a grid position becomes an exit candidate iff its path
\* contains one of the fixed keywords (case-insensitively) or its type code is
\* 1, 2 or 3; an entity matching neither rule contributes no exit, and an
\* entity matching both rules contributes one exit, not two.
ExitCandidateRule ==
    pc \in {"exits", "optimal"} =>
        /\ \A i \in ExitSources :
              \E k \in 1..Len(exit_candidates) :
                  exit_candidates[k] = GridPositionOf(entities[i])
        /\ \A k \in 1..Len(exit_candidates) :
              \E i \in ExitSources : exit_candidates[k] = GridPositionOf(entities[i])
        /\ \A k \in 1..Len(exits) :
              \E i \in ExitSources : exits[k] = GridPositionOf(entities[i])
        /\ \A i \in ExitSources :
              \E k \in 1..Len(exits) : CloserThan10(exits[k], GridPositionOf(entities[i]))
        /\ Len(exits) <= Cardinality(ExitSources)
        /\ \A k, l \in 1..Len(exits) : k # l => exits[k] # exits[l]

\* an upper-case keyword entity, an entity matching both rules and one matching neither
ExitCandidateRuleWitness ==
    /\ pc = "exits"
    /\ Len(entities) = 3
    /\ Get(entities[1], "Path", <<>>) = <<"M", "e", "t", "a", "d", "a", "t", "a", "/", "D", "o", "o", "r">>
    /\ Get(entities[2], "EntityType", 0) = 3
    /\ MentionsKeyword(Get(entities[2], "Path", <<>>))
    /\ Get(entities[3], "EntityType", 0) = 4
    /\ exits = <<Position(0, 0), Position(10, 0)>>
    /\ Len(exit_candidates) = 3

\* C9: for a non-empty exit list find_optimal_exit returns an exit at minimal
\* Euclidean distance from the player, the first such exit in input order;
\* for an empty list it returns no exit.
OptimalExitNearestFirst ==
    pc = "optimal" =>
        IF exits = <<>> THEN optimal = <<>>
        ELSE \E i \in 1..Len(exits) :
                /\ optimal = <<exits[i]>>
                /\ \A j \in 1..Len(exits) :
                      Dist2(exits[j], player_pos) >= Dist2(exits[i], player_pos)
                /\ \A j \in 1..(i - 1) :
                      Dist2(exits[j], player_pos) > Dist2(exits[i], player_pos)

\* two exits at the same distance from the player, the first one chosen
OptimalExitWitness ==
    /\ pc = "optimal"
    /\ Len(exits) >= 2
    /\ optimal = <<exits[1]>>
    /\ \E j \in 2..Len(exits) :
          Dist2(exits[j], player_pos) = Dist2(exits[1], player_pos)

\* the empty exit list
OptimalExitNoneWitness ==
    pc = "optimal" /\ entities # <<>> /\ exits = <<>> /\ optimal = <<>>

(***************************************************************************)
(* Properties of create_intelligent_path (Spec).                           *)
(***************************************************************************)
Start == Position(start_pos.X, start_pos.Y)

LastOf(seq) == seq[Len(seq)]

\* C1: for every start position, terrain string (empty, malformed or
\* well-formed) and entity list (also the empty one) create_intelligent_path
\* returns a path of at least one waypoint.
PathNeverEmpty ==
    pc = "done" =>
        /\ method \in {"exploration", "direct", "astar"}
        /\ Len(path) >= 1
        /\ \A i \in 1..Len(path) : DOMAIN path[i] = {"x", "y"}

\* a malformed terrain string and a near exit
PathNeverEmptyWitness ==
    /\ pc = "done"
    /\ terrain_string = <<"5", "0", " ", "x">>
    /\ ta.grid = <<>>
    /\ optimal = <<Position(2, 2)>>
    /\ start_pos = [X |-> 0, Y |-> 0]
    /\ path = << [x |-> 2, y |-> 2] >>

ClaimExtendedKeywords == {<<"w", "a", "y", "p", "o", "i", "n", "t">>, <<"t", "e", "l", "e", "p", "o", "r", "t">>, <<"p", "o", "r", "t", "a", "l">>, <<"t", "r", "a", "n", "s", "i", "t", "i", "o", "n">>}

MentionsExtendedKeyword(str) ==
    \E kw \in ClaimExtendedKeywords : \E off \in 0..(Len(str) - Len(kw)) :
        \A j \in 1..Len(kw) : SameLetter(str[off + j], kw[j])

\* some entity is an exit for the keyword/type-code pass or for the looser retry
ExitIdentified ==
    \E i \in 1..Len(entities) :
        /\ WithGrid(entities[i])
        /\ \/ Qualifies(entities[i])
           \/ "Path" \in DOMAIN entities[i] /\ MentionsExtendedKeyword(entities[i].Path)

\* the cells of the parsed grid whose code is at least 50
WalkableCells ==
    {c \in {Position(x, y) : x \in 0..(ta.width - 1), y \in 0..(ta.height - 1)} :
        /\ c.x + 1 <= Len(ta.grid[c.y + 1])
        /\ ta.grid[c.y + 1][c.x + 1] >= 50}

Adjacent(p, c) ==
    /\ p # c
    /\ p.x - c.x \in {-1, 0, 1}
    /\ p.y - c.y \in {-1, 0, 1}

RECURSIVE ReachableFrom(_)
ReachableFrom(S) ==
    LET more == S \cup {c \in WalkableCells : \E p \in S : Adjacent(p, c)}
    IN  IF more = S THEN S ELSE ReachableFrom(more)

\* a route exists: 8-connected walkable steps lead from the start to within 5 of the goal
RouteExists(goal) == \E p \in ReachableFrom({Start}) : Dist2(p, goal) < 25

\* C2: the exploration pattern is returned iff neither the keyword/type-code
\* pass nor the looser retry identifies an exit; otherwise the A* path when the
\* grid is non-empty and A* finds a route to the nearest exit; otherwise the
\* direct path.
CascadeOrder ==
    pc = "done" =>
        /\ method = "exploration" <=> ~ExitIdentified
        /\ method = "astar" <=>
              (ExitIdentified /\ ta.grid # <<>> /\ RouteExists(optimal[1]))
        /\ method = "direct" <=>
              (ExitIdentified /\ (ta.grid = <<>> \/ ~RouteExists(optimal[1])))
        /\ method = "astar" <=> astar_path # <<>>
        /\ ExitIdentified =>
              \A k \in 1..Len(exits) : Dist2(optimal[1], Start) <= Dist2(exits[k], Start)

\* an exit found only by the looser retry, terrain present, no route: direct path
CascadeOrderWitness ==
    /\ pc = "done"
    /\ exit_candidates = <<>>
    /\ exits = <<Position(7, 1)>>
    /\ ta.grid # <<>>
    /\ ~RouteExists(optimal[1])
    /\ method = "direct"

AStarRunning == pc = "astar"

\* a node less than 5 from the goal was popped, or the open set ran empty
AStarEnded ==
    /\ pc = "done"
    /\ \/ astar_path # <<>> /\ Dist2(LastOf(astar_path[1]), optimal[1]) < 25
       \/ astar_path = <<>> /\ open_set = <<>>

\* a bound on the pops still to come: a pop either closes a position that
\* was open, pushing at most its 8 neighbours, or only shortens the open set
PopsLeft ==
    9 * Cardinality((WalkableCells \cup {Start}) \ closed_set) + Len(open_set)

\* C23: on every finite terrain grid and for every start and goal, inside or
\* outside the grid, walkable or not, _find_path_astar terminates: after
\* finitely many pops a node less than 5 units from the goal is popped or the
\* open set is exhausted and no path is returned.  (Every pass of the loop
\* lowers the natural number PopsLeft or ends the search in one of the two
\* ways; the loop can always take its next pass.)
AStarTerminates ==
    [][AStarRunning => IF pc' = "done" THEN AStarEnded' ELSE PopsLeft' < PopsLeft]_vars

\* a search ended by exhaustion after several pops, from a start outside the grid
\* or on it
AStarTerminatesWitness ==
    /\ pc = "done"
    /\ astar_path = <<>>
    /\ open_set = <<>>
    /\ Cardinality(closed_set) >= 4
    /\ optimal[1] \notin WalkableCells

\* C24: _find_path_astar returns no path if and only if no position less than
\* 5 units from the goal is reachable from the start by steps to 8-connected
\* walkable cells, the start counting as reached also when it is not a
\* walkable cell; whenever such a position is reachable a path is returned.
AStarNoPathIffUnreachable ==
    [][(pc = "astar" /\ pc' = "done") =>
          /\ astar_path' = <<>> <=> ~RouteExists(optimal[1])
          /\ astar_path' # <<>> => LastOf(astar_path'[1]) \in ReachableFrom({Start})]_vars

\* a route of several steps found from a start whose own cell is blocked
AStarFromBlockedStartWitness ==
    /\ pc = "done"
    /\ TerrainAnalyzer_is_valid_position(ta, Start.x, Start.y)
    /\ Start \notin WalkableCells
    /\ astar_path # <<>>
    /\ Len(astar_path[1]) >= 3

\* C3: whenever _find_path_astar returns a path, its first element is the
\* start position and its last element is less than 5 units from the goal.
AStarPathEndpoints ==
    astar_path # <<>> =>
        /\ astar_path[1][1] = Start
        /\ Dist2(LastOf(astar_path[1]), optimal[1]) < 25

\* a returned route of several steps around blocked cells
AStarPathEndpointsWitness ==
    /\ pc = "done"
    /\ astar_path # <<>>
    /\ Len(astar_path[1]) >= 4
    /\ \E i \in 1..Len(astar_path[1]) : astar_path[1][i].y # Start.y

Scenario3x3 ==
    /\ pc = "done"
    /\ ta.grid = Rows3x3
    /\ Start = Position(0, 0)
    /\ optimal = <<Position(2, 2)>>

\* C4 as stated: on the 3x3 grid of code 50, A* from (0,0) to (2,2) returns a
\* non-empty path whose last point is (2,2) or a cell adjacent to (2,2).
AStar3x3EndsAtGoalOrAdjacent ==
    Scenario3x3 =>
        /\ astar_path # <<>>
        /\ Len(astar_path[1]) >= 1
        /\ LastOf(astar_path[1]).x \in 1..3
        /\ LastOf(astar_path[1]).y \in 1..3

\* C4 amended: on the 3x3 grid of code 50, A* from (0,0) to (2,2) returns a
\* non-empty path whose last point is less than 5 units from (2,2); that path
\* is the start (0,0) alone.
AStar3x3EndsWithinRadius ==
    Scenario3x3 =>
        /\ astar_path # <<>>
        /\ Len(astar_path[1]) >= 1
        /\ Dist2(LastOf(astar_path[1]), Position(2, 2)) < 25
        /\ astar_path[1] = <<Position(0, 0)>>

AStar3x3Witness ==
    /\ Scenario3x3
    /\ method = "astar"
    /\ path = << [x |-> 0, y |-> 0] >>

\* C5: with an empty terrain string and an exit identified the direct path is
\* returned, and the last waypoint of every direct path is the position of
\* the nearest exit; a single Waypoint entity at (100, 50) with the player at
\* (0, 0) gives a path ending at (100, 50).
DirectPathEndsAtExit ==
    pc = "done" =>
        /\ (terrain_string = <<>> /\ ExitIdentified) => method = "direct"
        /\ method = "direct" =>
              /\ LastOf(path) = [x |-> optimal[1].x, y |-> optimal[1].y]
              /\ \A k \in 1..Len(exits) :
                    Dist2(optimal[1], Start) <= Dist2(exits[k], Start)
        /\ (/\ terrain_string = <<>>
            /\ Start = Position(0, 0)
            /\ Len(entities) = 1
            /\ WithGrid(entities[1])
            /\ GridPositionOf(entities[1]) = Position(100, 50)
            /\ MentionsKeyword(Get(entities[1], "Path", <<>>)))
           => LastOf(path) = [x |-> 100, y |-> 50]

\* the Waypoint scenario: seven waypoints along the line
DirectPathWitness ==
    /\ pc = "done"
    /\ terrain_string = <<>>
    /\ Start = Position(0, 0)
    /\ Len(entities) = 1
    /\ method = "direct"
    /\ Len(path) = 7
    /\ path[1] = [x |-> 14, y |-> 7]
    /\ LastOf(path) = [x |-> 100, y |-> 50]

ExplorationOffsets ==
    << <<60, 0>>, <<120, 0>>, <<180, 0>>,
       <<180, 60>>, <<120, 60>>, <<60, 60>>,
       <<60, -60>>, <<120, -60>>, <<180, -60>>,
       <<240, 0>>, <<300, 0>>, <<360, 0>> >>

\* C6: whenever no exit is identified the path has exactly twelve waypoints,
\* the i-th being the start plus the i-th fixed offset, whatever the terrain
\* string and the exit-free entity list.
ExplorationPatternFixed ==
    (pc = "done" /\ ~ExitIdentified) =>
        /\ Len(path) = 12
        /\ \A i \in 1..12 :
              path[i] = [x |-> start_pos.X + ExplorationOffsets[i][1],
                         y |-> start_pos.Y + ExplorationOffsets[i][2]]

\* player at (10, 10), terrain present, entities present but none an exit
ExplorationPatternWitness ==
    /\ pc = "done"
    /\ start_pos = [X |-> 10, Y |-> 10]
    /\ ta.grid # <<>>
    /\ entities # <<>>
    /\ method = "exploration"
    /\ path[7] = [x |-> 70, y |-> -50]

(***************************************************************************)
(* Properties of the A* paths (SpecPaths) and of the engine (SpecEngine).  *)
(***************************************************************************)
\* consecutive positions differ by one of the eight offsets
EightConnected(route) ==
    \A i \in 1..(Len(route) - 1) : Adjacent(route[i], route[i + 1])

NoPositionTwice(route) ==
    \A i \in 1..Len(route) : \A j \in 1..Len(route) : route[i] = route[j] => i = j

FoundPath == engine_call # <<>> /\ engine_call[1].op = "find_path"

\* the walkable cells of current_terrain
EngineCells ==
    {c \in {Position(x, y) : x \in 0..(tg.width - 1), y \in 0..(tg.height - 1)} :
        /\ c.x + 1 <= Len(tg.grid[c.y + 1])
        /\ tg.grid[c.y + 1][c.x + 1] = 51}

\* C25: in every path returned by A* (_find_path_astar and find_path) each
\* consecutive pair of positions differs by one of the eight compass and
\* diagonal offsets, every position after the first is an in-bounds walkable
\* cell, and no position occurs twice.
AStarPathsAreSimpleWalks ==
    /\ astar_path # <<>> =>
          /\ EightConnected(astar_path[1])
          /\ NoPositionTwice(astar_path[1])
          /\ \A i \in 2..Len(astar_path[1]) : astar_path[1][i] \in WalkableCells
    /\ FoundPath =>
          /\ EightConnected(engine_call[1].result)
          /\ NoPositionTwice(engine_call[1].result)
          /\ \A i \in 2..Len(engine_call[1].result) :
                engine_call[1].result[i] \in EngineCells

\* a path of find_path around blocked cells, with a diagonal step past a
\* blocked cell
AStarPathsWitness ==
    /\ FoundPath
    /\ tg.grid = EngineRowsZigzag
    /\ Len(engine_call[1].result) >= 6
    /\ \E i \in 1..(Len(engine_call[1].result) - 1) :
          /\ engine_call[1].result[i].x # engine_call[1].result[i + 1].x
          /\ engine_call[1].result[i].y # engine_call[1].result[i + 1].y

\* more than any walk that visits no cell twice can cost
Unreached == 1414000 * (Cardinality(EngineCells) + 1)

\* the cheapest cost, in millionths, of an 8-connected walk over walkable
\* cells from the cells that cost[c] = 0 marks
RECURSIVE Cheapest(_)
Cheapest(cost) ==
    LET via(c) == {cost[p] + (IF p.x # c.x /\ p.y # c.y THEN 1414000 ELSE 1000000) :
                      p \in {q \in EngineCells : Adjacent(q, c) /\ cost[q] < Unreached}}
        lower == [c \in EngineCells |->
                    IF \E v \in via(c) : v < cost[c]
                    THEN CHOOSE v \in via(c) : \A u \in via(c) : v <= u
                    ELSE cost[c]]
    IN  IF lower = cost THEN cost ELSE Cheapest(lower)

MinimalCost(start, end) ==
    Cheapest([c \in EngineCells |-> IF c = start THEN 0 ELSE Unreached])[end]

RECURSIVE RouteCost(_)
RouteCost(route) ==
    IF Len(route) <= 1 THEN 0
    ELSE (IF route[1].x # route[2].x /\ route[1].y # route[2].y THEN 1414000 ELSE 1000000)
            + RouteCost(Tail(route))

\* C26: when start and end are both walkable and connected, find_path returns
\* a path from start to end whose total movement cost (1.0 per straight step,
\* 1.414 per diagonal step) is minimal among all 8-connected walkable paths
\* from start to end; it returns the empty list when start or end is not
\* walkable or when they are not connected.
FindPathCostMinimal ==
    (FoundPath /\ tg.built) =>
        LET start == engine_call[1].start
            end == engine_call[1].end
            result == engine_call[1].result
        IN  IF /\ start \in EngineCells
               /\ end \in EngineCells
               /\ MinimalCost(start, end) < Unreached
            THEN /\ result # <<>>
                 /\ result[1] = start
                 /\ result[Len(result)] = end
                 /\ RouteCost(result) = MinimalCost(start, end)
            ELSE result = <<>>

CreatedPath == engine_call # <<>> /\ engine_call[1].op = "create_aqueduct_path"

\* the terrain string gave no terrain data: no cell was parsed from it
NoTerrainData == \A i \in 1..Len(tg.grid) : tg.grid[i] = <<>>

\* C29: for every terrain string and every start position with integer X and
\* Y, create_aqueduct_path returns a path of at least one waypoint: the
\* 10-waypoint fallback path (start + 20 * i along X, i = 0..9) when the
\* terrain string yields no terrain data, otherwise the A*-linked linear path
\* when that path has more than one position, otherwise the 14-waypoint
\* simple path.
AqueductPathCascade ==
    CreatedPath =>
        LET pos == engine_call[1].start_pos
            result == engine_call[1].result
            linear == create_linear_aqueduct_path(tg, Position(pos.X, pos.Y))
        IN  /\ Len(result) >= 1
            /\ IF NoTerrainData
               THEN /\ Len(result) = 10
                    /\ \A i \in 0..9 : result[i + 1] = [x |-> pos.X + 20 * i, y |-> pos.Y]
               ELSE IF Len(linear) > 1
                    THEN result = [i \in 1..Len(linear) |->
                                      [x |-> linear[i].x, y |-> linear[i].y]]
                    ELSE Len(result) = 14 /\ result = create_simple_aqueduct_path(pos)

====
